---------------------------- MODULE Spec2Model ----------------------------
(***************************************************************************)
(* SensorThings integration: the push channel (mqtt_listener.py), the poll *)
(* channel (the coordinator created in sensor.py) and the entities that    *)
(* reconcile the two (sensor.py).                                          *)
(*                                                                         *)
(* Python values.  An optional JSON scalar is a sequence of length at most *)
(* one: None is <<>> and the integer n is <<n>>.  A dict is a record; a    *)
(* key that the code reads with .get(key, []) and that is missing is the   *)
(* empty sequence, one it reads with .get(key) and that is missing is None.*)
(***************************************************************************)
EXTENDS Integers, Sequences, FiniteSets, TLC

None == <<>>
Some(x) == <<x>>

\* Python truthiness of an optional JSON integer: None and 0 are falsy.
Truthy(o) == o # None /\ o[1] # 0

\* The record of the last call (the history variable observed): its name
\* op, its argument, the state before it, its result, and the outcome of the
\* last start().  Nothing is recorded at first.
NoCall == [op |-> "", arg |-> None, before |-> None, result |-> None, started |-> ""]

(***************************************************************************)
(* Bounds of the model.                                                    *)
(***************************************************************************)
MaxMsgs == 2        \* broker messages handled in one behaviour
MaxClients == 2     \* mqtt.Client objects created in one behaviour
WaitSteps == 1      \* iterations of start()'s wait loop (100 in the code)

(***************************************************************************)
(* The server's data: what one fetch of the Things collection returns.     *)
(***************************************************************************)
Obs(r, t) == [result |-> Some(r), phenomenonTime |-> Some(t)]
Datastream(id, name, obs) == [iot_id |-> Some(id), name |-> name, Observations |-> obs]
Thing(id, dss) == [iot_id |-> Some(id), Datastreams |-> dss]

\* Names are sequences of characters, so that lower() and "in" work on them.
Temp == <<"T", "e", "m", "p">>
Wind == <<"W", "i", "n", "d">>
BatteryLevel == <<"B", "a", "t", "t", "e", "r", "y", " ", "L", "e", "v", "e", "l">>

\* Thing 1 has the generic stream 10 and the battery stream 11, Thing 2 the
\* generic stream 0.  Stream 99 belongs to no Thing of any poll result.
PollResults ==
    { <<Thing(1, <<Datastream(10, Temp, <<Obs(22, 1)>>),
                   Datastream(11, BatteryLevel, <<Obs(85, 1)>>)>>)>>,
      <<Thing(2, <<Datastream(0, Wind, <<>>)>>),
        Thing(1, <<Datastream(11, BatteryLevel, <<Obs(80, 2)>>)>>)>>,
      <<Thing(1, <<Datastream(11, BatteryLevel, <<>>),
                   Datastream(10, Temp, <<Obs(21, 2)>>)>>)>> }

\* ids of all streams a message can name, and of the streams of the server
StreamIds == {Some(0), Some(10), Some(11), Some(99)}

(***************************************************************************)
(* Entities and callbacks.  An entity is named by its kind and the id its  *)
(* unique_id is built from; its callback (the bound method _on_mqtt_update)*)
(* is named like the entity.  ExternalCallback is an asynchronous callable *)
(* registered through the listener's public subscribe().                   *)
(***************************************************************************)
DatastreamEntity(dsid) == <<"datastream", dsid[1]>>
BatteryEntity(thingid) == <<"battery", thingid[1]>>
ExternalCallback == <<"external", 99>>

EntityKeys == {<<"datastream", 0>>, <<"datastream", 10>>, <<"datastream", 11>>,
               <<"battery", 1>>, <<"battery", 2>>}
Callbacks == EntityKeys \cup {ExternalCallback}

\* asyncio.iscoroutinefunction(callback): the entities' _on_mqtt_update are
\* plain functions decorated with @callback
iscoroutinefunction(cb) == cb[1] = "external"

\* str.lower() on the letters A-Z
UpperCase == <<"A", "B", "C", "D", "E", "F", "G", "H", "I", "J", "K", "L", "M",
               "N", "O", "P", "Q", "R", "S", "T", "U", "V", "W", "X", "Y", "Z">>
LowerCase == <<"a", "b", "c", "d", "e", "f", "g", "h", "i", "j", "k", "l", "m",
               "n", "o", "p", "q", "r", "s", "t", "u", "v", "w", "x", "y", "z">>

lower_char(c) ==
    IF \E i \in DOMAIN UpperCase : UpperCase[i] = c
    THEN LowerCase[CHOOSE i \in DOMAIN UpperCase : UpperCase[i] = c]
    ELSE c

lower(name) == [i \in DOMAIN name |-> lower_char(name[i])]

\* Python's "sub in name" on strings
contains(name, sub) ==
    \E i \in 0..(Len(name) - Len(sub)) : SubSeq(name, i + 1, i + Len(sub)) = sub

\* a test that compares the name as it is written
is_battery_datastream_cased(ds) ==
    \/ contains(ds.name, <<"b", "a", "t", "t", "e", "r", "y">>)
    \/ contains(ds.name, <<"p", "o", "w", "e", "r">>)

\* sensor.py _is_battery_datastream: "battery" or "power" in the lowercased name
is_battery_datastream(ds) ==
    \/ contains(lower(ds.name), <<"b", "a", "t", "t", "e", "r", "y">>)
    \/ contains(lower(ds.name), <<"p", "o", "w", "e", "r">>)

RECURSIVE find_battery_datastream_in(_)
find_battery_datastream_in(dss) ==
    IF dss = <<>> THEN None
    ELSE IF is_battery_datastream(Head(dss)) THEN Some(Head(dss))
    ELSE find_battery_datastream_in(Tail(dss))

\* SensorThingsBatteryLevel._find_battery_datastream: the first battery-like one
find_battery_datastream(thing) == find_battery_datastream_in(thing.Datastreams)

has_battery_datastream(thing) == find_battery_datastream(thing) # None


(***************************************************************************)
(* State.                                                                  *)
(***************************************************************************)
VARIABLES
    mqtt_enabled,     \* entry.options[CONF_MQTT_ENABLED]: whether a listener is created
    phase,            \* position of sensor.async_setup_entry / the entry's life
    todo,             \* entities async_setup_entry has still to construct, in loop order
    data,             \* coordinator.data: None before the first refresh, else Some(things)
    scan_interval,    \* entry.options.get(CONF_SCAN_INTERVAL): None while the key is absent
    update_interval,  \* the coordinator's update_interval in seconds, None before it exists
    domain_data,      \* hass.data[DOMAIN] as the services read it: None, or Some(its items)
    refresh_all,      \* position of a running handle_refresh_all
    refresh_requests, \* per stored entry, the async_request_refresh() calls the handler made
    earlier_waits,    \* the timeouts left to start() coroutines that still wait while a
                      \* later start() has begun
    binary_sensors,   \* what binary_sensor.async_setup_entry did: None before it ran
    topic_subscriptions, \* the clients subscribe(topic_pattern) was called on since the
                      \* last connection attempt was answered, while its connection stands
    entities,         \* the constructed entity objects, by entity name
    removed,          \* entities whose async_will_remove_from_hass has run
    mqtt_value,       \* entity._mqtt_value
    mqtt_timestamp,   \* entity._mqtt_timestamp
    client,           \* listener.client: None or Some(id of an mqtt.Client)
    nclients,         \* mqtt.Client objects created so far
    connected,        \* listener.connected
    subscribers,      \* listener.subscribers: dict datastream id -> callback
    waiting,          \* a start() coroutine is in its wait loop
    timeout,          \* start()'s local timeout, in wait steps
    queue,            \* hass.loop: the scheduled _notify_subscriber coroutines, FIFO
    net_pc,           \* the client's network thread: "idle" or inside _on_message
    net_msg,          \* the message _on_message received last (its observation_data)
    net_dead,         \* an exception escaped a paho callback and ended the thread
    nmsgs,            \* messages the handler has received
    \* history variables: they record what happened and influence nothing
    last_handled,     \* how the last completed _on_message ended
    seen,             \* callbacks registered for net_msg's stream during its handling
    last_pushed,      \* per entity, the value of the last _on_mqtt_update call
    write_ctx,        \* per entity, the context that last wrote its pushed value
    invocations,      \* per callback, how often it has been invoked
    notify_result,    \* how the last _notify_subscriber coroutine ended
    delivered,        \* per callback, the number of the last message delivered to it
    last_scheduled,   \* per stream, the last message the handler scheduled
    live,             \* the mqtt.Client objects whose network loop thread runs
    refresh_requested,\* coordinator.async_request_refresh() is pending
    recording,        \* whether calls are recorded in observed (fixed by the initial state)
    observed          \* history: the last recorded call and the last start()'s outcome

listener_vars == <<client, nclients, connected, subscribers, waiting, timeout>>
entity_vars == <<entities, removed, mqtt_value, mqtt_timestamp>>
service_vars == <<domain_data, refresh_all, refresh_requests>>
coordinator_vars == <<data, scan_interval, update_interval, service_vars>>
poll_vars == <<coordinator_vars, topic_subscriptions, binary_sensors, earlier_waits>>
setup_vars == <<mqtt_enabled, phase, todo>>
net_vars == <<net_pc, net_msg, net_dead, nmsgs>>
push_history == <<last_pushed, write_ctx, invocations, delivered>>
history == <<last_handled, seen, push_history, notify_result, last_scheduled>>
aux_vars == <<live, refresh_requested, recording, observed>>
vars == <<setup_vars, poll_vars, entity_vars, listener_vars, queue, net_vars, history,
          aux_vars>>

(***************************************************************************)
(* Reading an entity's value (sensor.py native_value).  A read ends by     *)
(* returning a value or by raising.                                        *)
(***************************************************************************)
Returned(v) == [raised |-> FALSE, value |-> v]
Raised == [raised |-> TRUE, value |-> None]

\* The inner loop of SensorThingsDatastream.native_value over one Thing's
\* Datastreams: <<v>> when it returns v, <<>> when the loop ends.
RECURSIVE scan_datastreams(_, _)
scan_datastreams(dss, datastream_id) ==
    IF dss = <<>> THEN <<>>
    ELSE IF Head(dss).iot_id = datastream_id /\ Head(dss).Observations # <<>>
         THEN <<Head(dss).Observations[1].result>>
         ELSE scan_datastreams(Tail(dss), datastream_id)

\* The outer loop over coordinator.data
RECURSIVE scan_things(_, _, _)
scan_things(things, thing_id, datastream_id) ==
    IF things = <<>> THEN <<>>
    ELSE LET r == IF Head(things).iot_id = thing_id
                  THEN scan_datastreams(Head(things).Datastreams, datastream_id)
                  ELSE <<>>
         IN  IF r # <<>> THEN r ELSE scan_things(Tail(things), thing_id, datastream_id)

\* a variant that tests the pushed value for truthiness instead of "is not None"
datastream_native_value_truthy(e) ==
    IF Truthy(mqtt_value[e]) THEN Returned(mqtt_value[e])
    ELSE IF data = None THEN Raised
    ELSE LET r == scan_things(data[1], entities[e].thing.iot_id, entities[e].datastream_id)
         IN  IF r # <<>> THEN Returned(r[1]) ELSE Returned(None)

\* a variant that scans the Thing the entity was constructed with
datastream_native_value_stale(e) ==
    IF mqtt_value[e] # None THEN Returned(mqtt_value[e])
    ELSE LET r == scan_things(<<entities[e].thing>>, entities[e].thing.iot_id,
                              entities[e].datastream_id)
         IN  IF r # <<>> THEN Returned(r[1]) ELSE Returned(None)

\* SensorThingsDatastream.native_value
datastream_native_value(e) ==
    IF mqtt_value[e] # None THEN Returned(mqtt_value[e])
    ELSE IF data = None THEN Raised          \* for thing in None: TypeError
    ELSE LET r == scan_things(data[1], entities[e].thing.iot_id, entities[e].datastream_id)
         IN  IF r # <<>> THEN Returned(r[1]) ELSE Returned(None)

\* SensorThingsBatteryLevel.native_value: reads the Datastream dict that
\* __init__ took from the Thing it was constructed with
battery_native_value(e) ==
    IF mqtt_value[e] # None THEN Returned(mqtt_value[e])
    ELSE IF entities[e].battery_datastream # None
            /\ entities[e].battery_datastream[1].Observations # <<>>
         THEN Returned(entities[e].battery_datastream[1].Observations[1].result)
         ELSE Returned(None)

native_value(e) ==
    IF entities[e].kind = "battery" THEN battery_native_value(e)
    ELSE datastream_native_value(e)

(***************************************************************************)
(* The subscription registry (mqtt_listener.py subscribe / unsubscribe).   *)
(***************************************************************************)
\* a subscribe() that keeps the callback an id already has
subscribe_keeps_first(subs, datastream_id, callback) ==
    [k \in DOMAIN subs \cup {datastream_id} |->
        IF k \in DOMAIN subs THEN subs[k] ELSE callback]

subscribe(subs, datastream_id, callback) ==
    [k \in DOMAIN subs \cup {datastream_id} |->
        IF k = datastream_id THEN callback ELSE subs[k]]

\* an unsubscribe() that leaves the registry as it is
unsubscribe_nothing(subs, datastream_id) == subs

unsubscribe(subs, datastream_id) ==
    IF datastream_id \in DOMAIN subs
    THEN [k \in DOMAIN subs \ {datastream_id} |-> subs[k]]
    ELSE subs

\* an is_connected() that reports the flag alone
is_connected_flag_only == connected

\* SensorThingsMQTTListener.is_connected
is_connected == connected /\ client # None

(***************************************************************************)
(* Entity construction (sensor.py __init__ of the two classes and the loop *)
(* of async_setup_entry).                                                  *)
(***************************************************************************)
new_datastream_sensor(ds, thing) ==
    [name |-> DatastreamEntity(ds.iot_id),
     object |-> [kind |-> "datastream", thing |-> thing,
                 datastream_id |-> ds.iot_id, battery_datastream |-> None]]

new_battery_sensor(thing) ==
    [name |-> BatteryEntity(thing.iot_id),
     object |-> [kind |-> "battery", thing |-> thing,
                 datastream_id |-> None,
                 battery_datastream |-> find_battery_datastream(thing)]]

RECURSIVE datastream_sensors(_, _)
datastream_sensors(dss, thing) ==
    IF dss = <<>> THEN <<>>
    ELSE (IF ~is_battery_datastream(Head(dss))
          THEN <<new_datastream_sensor(Head(dss), thing)>> ELSE <<>>)
         \o datastream_sensors(Tail(dss), thing)

\* the entities the loop at sensor.py 121-131 constructs, in construction order
RECURSIVE sensors_to_create(_)
sensors_to_create(things) ==
    IF things = <<>> THEN <<>>
    ELSE datastream_sensors(Head(things).Datastreams, Head(things))
         \o (IF has_battery_datastream(Head(things))
             THEN <<new_battery_sensor(Head(things))>> ELSE <<>>)
         \o sensors_to_create(Tail(things))

\* whether an entity that has a listener subscribes (and on removal
\* unsubscribes), and the stream id it does so with
has_subscription(object) ==
    IF object.kind = "datastream" THEN TRUE
    ELSE object.battery_datastream # None
         /\ Truthy(object.battery_datastream[1].iot_id)

subscription_id(object) ==
    IF object.kind = "datastream" THEN object.datastream_id
    ELSE object.battery_datastream[1].iot_id

(***************************************************************************)
(* Broker messages.  json is FALSE for a payload json.loads rejects.       *)
(***************************************************************************)
Payload(obs_id, ds, result, time) ==
    [json |-> TRUE, iot_id |-> obs_id, Datastream |-> ds,
     result |-> result, phenomenonTime |-> time]

InvalidJson ==
    [json |-> FALSE, iot_id |-> None, Datastream |-> None,
     result |-> None, phenomenonTime |-> None]

\* the (result, phenomenonTime) pairs of pushed observations; result 0 is
\* a falsy value that is not None
Pushed == {<<0, 1>>, <<23, 2>>}

PushedTo(ds) == IF ds = Some(10) THEN Pushed ELSE {<<23, 2>>}

ValidMessages ==
    UNION {{Payload(Some(123), Some([iot_id |-> ds]), Some(p[1]), Some(p[2])) :
               p \in PushedTo(ds)} : ds \in StreamIds}

MalformedMessages ==
    { InvalidJson,
      Payload(None, Some([iot_id |-> Some(10)]), Some(23), Some(2)),
      Payload(Some(123), None, Some(23), Some(2)),
      Payload(Some(123), Some([iot_id |-> None]), Some(23), Some(2)),
      Payload(Some(123), Some([iot_id |-> Some(10)]), None, Some(2)) }

Messages == ValidMessages \cup MalformedMessages

\* The exception _on_message raises before it reaches line 194, "" for none,
\* and whether it is raised inside the inner try block.
parse_exception(m) ==
    IF ~m.json THEN [type |-> "JSONDecodeError", inner |-> FALSE]     \* line 176
    ELSE IF m.iot_id # None /\ m.Datastream = None
         THEN [type |-> "AttributeError", inner |-> TRUE]             \* line 188
         ELSE [type |-> "", inner |-> FALSE]

\* except (json.JSONDecodeError, KeyError) at line 208
inner_handles(type) == type \in {"JSONDecodeError", "KeyError"}

\* except Exception at line 215
outer_handles(type) == type \in {"JSONDecodeError", "KeyError", "AttributeError"}

\* a handler whose only guard is one around json.loads
exception_outcome_json_only(exc) ==
    IF exc.type = "JSONDecodeError" THEN "error_logged" ELSE "escaped"

\* how the handler ends when an exception is raised in it
exception_outcome(exc) ==
    IF exc.inner /\ inner_handles(exc.type) THEN "debug_logged"
    ELSE IF outer_handles(exc.type) THEN "error_logged"
    ELSE "escaped"

\* line 194: if datastream_id and result is not None
passes_guard(m) == Truthy(m.Datastream[1].iot_id) /\ m.result # None

(***************************************************************************)
(* Initial state: the config entry exists, nothing has been set up.        *)
(***************************************************************************)
\* a call is recorded only in the specifications that record
record(op, arg, before, result) ==
    IF recording
    THEN [op |-> op, arg |-> arg, before |-> before, result |-> result,
          started |-> observed.started]
    ELSE observed

\* const.py DEFAULT_SCAN_INTERVAL
DEFAULT_SCAN_INTERVAL == 60

\* sensor.py line 75: entry.options.get(CONF_SCAN_INTERVAL, DEFAULT_SCAN_INTERVAL)
configured_scan_interval(options_value) ==
    IF options_value = None THEN DEFAULT_SCAN_INTERVAL ELSE options_value[1]

\* a timedelta(minutes=n), in seconds
timedelta_minutes(n) == n * 60

\* sensor.py line 111: timedelta(seconds=n), in seconds
timedelta_seconds(n) == n

\* the entries whose data the services can find in hass.data[DOMAIN]
EntryIds == {"entry1", "entry2", "entry3"}

\* no handle_refresh_all is running: pos is the iterator's place in the
\* dict's items, used the dict's size when the iterator was made
NoRefreshAll == [pc |-> "idle", pos |-> 0, used |-> 0]

\* everything but the listener's client, flag and registry and the data the
\* services read
InitOthers ==
    /\ mqtt_enabled \in BOOLEAN
    /\ phase = "init"
    /\ todo = <<>>
    /\ data = None
    /\ scan_interval = None
    /\ update_interval = None
    /\ refresh_all = NoRefreshAll
    /\ refresh_requests = [id \in EntryIds |-> 0]
    /\ topic_subscriptions = <<>>
    /\ binary_sensors = None
    /\ earlier_waits = <<>>
    /\ entities = <<>>
    /\ removed = {}
    /\ mqtt_value = [e \in EntityKeys |-> None]
    /\ mqtt_timestamp = [e \in EntityKeys |-> None]
    /\ waiting = FALSE
    /\ timeout = 0
    /\ queue = <<>>
    /\ net_pc = "idle"
    /\ net_msg = InvalidJson
    /\ net_dead = FALSE
    /\ nmsgs = 0
    /\ last_handled = [outcome |-> "", callback |-> None, after_malformed |-> FALSE]
    /\ seen = {}
    /\ last_pushed = [e \in EntityKeys |-> None]
    /\ write_ctx = [e \in EntityKeys |-> ""]
    /\ invocations = [c \in Callbacks |-> 0]
    /\ notify_result = [times |-> 0, args |-> <<>>, raised |-> FALSE, escaped |-> FALSE]
    /\ delivered = [c \in Callbacks |-> 0]
    /\ last_scheduled = [d \in StreamIds |-> None]
    /\ live = {}
    /\ refresh_requested = FALSE
    /\ observed = NoCall

\* SensorThingsMQTTListener.__init__ (mqtt_listener.py 28-47): no client,
\* not connected, an empty registry
InitProgram ==
    /\ InitOthers
    /\ domain_data = None
    /\ client = None
    /\ nclients = 0
    /\ connected = FALSE
    /\ subscribers = <<>>

Init == InitProgram /\ recording = FALSE

(***************************************************************************)
(* The listener's start() and stop() (mqtt_listener.py).                   *)
(***************************************************************************)
\* the listener's fields client and connected, with the running loop threads
listener == [client |-> client, connected |-> connected, live |-> live]

\* How start() gets on: "started" (client created, connect_async and
\* loop_start done, the wait loop is next), or mqtt.Client() raised (line 59),
\* or connect_async raised (line 69); the except clause of line 88 ends
\* start() in both.
StartOutcomes == {"started", "client_raises", "connect_raises"}

\* a start() without the except clause of line 88
start_raises_uncaught(outcome) == outcome # "started"

\* whether start() lets an exception out to its caller: the except clause of
\* lines 88-91 catches every Exception of the try body and logs it
start_raises(outcome) == FALSE

\* clients a run may create: the specifications that record follow one
\* reconnect more
ClientLimit == IF recording THEN MaxClients + 1 ELSE MaxClients

\* start() called on a listener in state l, up to its first await or, after
\* an exception, to its return: a new client, its callbacks, connect_async,
\* loop_start, timeout = 10.  It leaves self.connected as it is.
start_begin(outcome, l) ==
    /\ client' = IF outcome = "client_raises" THEN l.client ELSE Some(nclients + 1)
    /\ nclients' = IF outcome = "client_raises" THEN nclients ELSE nclients + 1
    /\ connected' = l.connected
    /\ live' = IF outcome = "started" THEN l.live \cup {nclients + 1} ELSE l.live
    /\ waiting' = (outcome = "started")
    /\ timeout' = IF outcome = "started" THEN WaitSteps ELSE timeout
    /\ observed' = IF recording
                   THEN [observed EXCEPT !.started =
                            IF outcome = "started" THEN "waiting" ELSE "raised"]
                   ELSE observed

\* a stop() that forgets the client without stopping its loop thread
stop_without_loop_stop(l) ==
    IF l.client # None
    THEN [client |-> None, connected |-> FALSE, live |-> l.live]
    ELSE l

\* stop() on a listener in state l: with a client, loop_stop() ends its
\* thread, disconnect(), client = None, connected = False; else nothing
stop(l) ==
    IF l.client # None
    THEN [client |-> None, connected |-> FALSE, live |-> l.live \ {l.client[1]}]
    ELSE l

\* stop(): acts only when there is a client
connected_after_stop == stop(listener).connected

\* stop() line 105: disconnect() ends the client's connection, and with it
\* the subscriptions made on that connection
topics_after_stop(l, topics) == IF l.client # None THEN <<>> ELSE topics

\* one iteration of start()'s wait loop: await asyncio.sleep(0.1); timeout -= 0.1
StartWait ==
    /\ waiting /\ timeout > 0 /\ ~connected
    /\ timeout' = timeout - 1
    /\ UNCHANGED aux_vars
    /\ UNCHANGED <<setup_vars, poll_vars, entity_vars, client, nclients, connected,
                   subscribers, waiting, queue, net_vars, history>>

\* a start() that gives its client up when the wait timed out
after_wait_cancelling(l) == IF l.connected THEN l ELSE stop(l)

\* the listener after the wait loop (lines 82-86): a warning or an info is
\* logged; the client, its thread and the flag stay as they are
after_wait(l) == l

\* the wait loop ends and start() returns; the setup that awaited it goes on
StartReturn ==
    /\ waiting /\ ~(timeout > 0 /\ ~connected)
    /\ waiting' = FALSE
    /\ client' = after_wait(listener).client
    /\ connected' = after_wait(listener).connected
    /\ live' = after_wait(listener).live
    /\ observed' = IF recording
                   THEN [observed EXCEPT !.started =
                            IF connected THEN "connected" ELSE "timeout"]
                   ELSE observed
    /\ UNCHANGED <<refresh_requested, recording>>
    /\ phase' = IF phase = "starting" THEN "refresh" ELSE phase
    /\ UNCHANGED <<mqtt_enabled, todo, poll_vars, entity_vars, nclients, subscribers,
                   timeout, queue, net_vars, history>>

(***************************************************************************)
(* sensor.async_setup_entry.                                               *)
(***************************************************************************)
\* lines 72-85: the listener is created and started when MQTT is enabled
SetupStartWith(outcome) ==
    /\ phase = "init"
    /\ IF mqtt_enabled
       THEN /\ nclients < ClientLimit
            /\ start_begin(outcome, listener)
            /\ phase' = IF outcome = "started" THEN "starting"
                        ELSE IF start_raises(outcome) THEN "failed"
                        ELSE "refresh"
            /\ UNCHANGED subscribers
       ELSE /\ outcome = "started"
            /\ phase' = "refresh"
            /\ UNCHANGED <<listener_vars, live, observed>>
    /\ UNCHANGED <<mqtt_enabled, todo, poll_vars, entity_vars, queue, net_vars, history,
                   refresh_requested, recording>>

\* the setup in which start() gets its client and its thread
SetupStart == SetupStartWith("started")

\* lines 114-115: the first refresh succeeds with poll result s
FirstRefresh(s) ==
    /\ phase = "refresh"
    /\ update_interval' = Some(timedelta_seconds(configured_scan_interval(scan_interval)))
    /\ data' = Some(s)
    /\ todo' = sensors_to_create(s)
    /\ phase' = IF sensors_to_create(s) = <<>> THEN "ready" ELSE "create"
    /\ UNCHANGED <<mqtt_enabled, scan_interval, service_vars, topic_subscriptions,
                   binary_sensors, earlier_waits,
                   entity_vars, listener_vars, queue,
                   net_vars, history>>
    /\ UNCHANGED aux_vars

\* the first refresh fails: async_config_entry_first_refresh raises and setup ends
FirstRefreshFails ==
    /\ phase = "refresh"
    /\ phase' = "failed"
    /\ update_interval' = Some(timedelta_seconds(configured_scan_interval(scan_interval)))
    /\ UNCHANGED <<mqtt_enabled, todo, data, scan_interval, service_vars,
                   topic_subscriptions, binary_sensors, earlier_waits,
                   entity_vars,
                   listener_vars, queue,
                   net_vars, history>>
    /\ UNCHANGED aux_vars

\* lines 121-131: one entity is constructed; with a listener it subscribes.
\* After the last one the entities are added and the entry's data is stored.
CreateEntity ==
    /\ phase = "create"
    /\ LET name == Head(todo).name
           object == Head(todo).object
           subscribing == mqtt_enabled /\ has_subscription(object)
       IN  /\ entities' = entities @@ (name :> object)
           /\ subscribers' = IF subscribing
                             THEN subscribe(subscribers, subscription_id(object), name)
                             ELSE subscribers
           /\ seen' = IF subscribing /\ net_pc # "idle"
                         /\ subscription_id(object) = net_msg.Datastream[1].iot_id
                      THEN seen \cup {name} ELSE seen
    /\ todo' = Tail(todo)
    /\ phase' = IF Tail(todo) = <<>> THEN "ready" ELSE "create"
    /\ UNCHANGED <<mqtt_enabled, poll_vars, removed, mqtt_value, mqtt_timestamp, client,
                   nclients, connected, waiting, timeout, queue, net_vars, last_handled,
                   push_history, notify_result, last_scheduled>>
    /\ UNCHANGED aux_vars

(***************************************************************************)
(* The coordinator's poll cycles (update_method async_fetch_data).         *)
(***************************************************************************)
\* a fetch succeeds: the snapshot is replaced by the fetched list
Poll(s) ==
    /\ phase \in {"ready", "unloaded"}
    /\ data' = Some(s)
    /\ refresh_requested' = FALSE
    /\ UNCHANGED <<setup_vars, scan_interval, update_interval, service_vars,
                   topic_subscriptions, binary_sensors, earlier_waits,
                   entity_vars,
                   listener_vars, queue, net_vars, history,
                   live, recording, observed>>

\* a fetch raises UpdateFailed: the coordinator keeps its data
PollFails ==
    /\ phase \in {"ready", "unloaded"}
    /\ refresh_requested' = FALSE
    /\ UNCHANGED <<setup_vars, poll_vars, entity_vars, listener_vars, queue, net_vars,
                   history, live, recording, observed>>

\* the fields of entity e that _on_mqtt_update writes
entity_fields(e) == [mqtt_value |-> mqtt_value[e], mqtt_timestamp |-> mqtt_timestamp[e]]

\* an _on_mqtt_update that keeps the pushed value with the newer timestamp
on_mqtt_update_newest(self, value, timestamp) ==
    IF self.mqtt_timestamp # None /\ timestamp # None
       /\ timestamp[1] < self.mqtt_timestamp[1]
    THEN [mqtt_value |-> self.mqtt_value, mqtt_timestamp |-> self.mqtt_timestamp,
          state_updates |-> 0]
    ELSE [mqtt_value |-> value, mqtt_timestamp |-> timestamp, state_updates |-> 1]

\* _on_mqtt_update(self, value, timestamp) of both entity classes: the two
\* fields after the call and the calls of async_schedule_update_ha_state made
on_mqtt_update(self, value, timestamp) ==
    [mqtt_value |-> value, mqtt_timestamp |-> timestamp, state_updates |-> 1]

(***************************************************************************)
(* Delivery of a pushed value on the main loop.                            *)
(***************************************************************************)
\* A callback runs in context ctx with (value, timestamp) of item.  An
\* entity's _on_mqtt_update (sensor.py 294-310, 531-547) stores both; the
\* history variables record the call.
invoke(item, ctx, times) ==
    LET cb == item.callback
    IN  /\ mqtt_value' = IF cb \in EntityKeys /\ times > 0
                         THEN [mqtt_value EXCEPT ![cb] =
                                 on_mqtt_update(entity_fields(cb), item.value,
                                                item.timestamp).mqtt_value]
                         ELSE mqtt_value
        /\ mqtt_timestamp' = IF cb \in EntityKeys /\ times > 0
                             THEN [mqtt_timestamp EXCEPT ![cb] =
                                     on_mqtt_update(entity_fields(cb), item.value,
                                                    item.timestamp).mqtt_timestamp]
                             ELSE mqtt_timestamp
        /\ last_pushed' = IF cb \in EntityKeys /\ times > 0
                          THEN [last_pushed EXCEPT ![cb] = item.value] ELSE last_pushed
        /\ write_ctx' = IF cb \in EntityKeys /\ times > 0
                        THEN [write_ctx EXCEPT ![cb] = ctx] ELSE write_ctx
        /\ invocations' = [invocations EXCEPT ![cb] = @ + times]
        /\ delivered' = IF times > 0 THEN [delivered EXCEPT ![cb] = item.seq]
                        ELSE delivered

\* _notify_subscriber lines 232-237: how often the callback runs
notify_invocations(cb) ==
    IF iscoroutinefunction(cb) THEN 1       \* await callback(value, timestamp)
    ELSE 1                                  \* callback(value, timestamp)

\* _notify_subscriber line 238: except Exception
notify_handles(raised) == TRUE

\* the coroutine _notify_subscriber(callback, value, timestamp), run by the
\* main loop; raised says whether the callback raises after doing its work
\* (async_schedule_update_ha_state, or the external callable itself)
notify_subscriber(item, raised) ==
    /\ invoke(item, "main", notify_invocations(item.callback))
    /\ notify_result' = [times |-> notify_invocations(item.callback),
                         args |-> IF notify_invocations(item.callback) > 0
                                  THEN <<item.value, item.timestamp>> ELSE <<>>,
                         raised |-> raised /\ notify_invocations(item.callback) > 0,
                         escaped |-> raised /\ notify_invocations(item.callback) > 0
                                     /\ ~notify_handles(raised)]

\* the main loop runs the coroutine that was scheduled first
Notify ==
    /\ queue # <<>>
    /\ \E raised \in BOOLEAN : notify_subscriber(Head(queue), raised)
    /\ queue' = Tail(queue)
    /\ UNCHANGED <<setup_vars, poll_vars, entities, removed, listener_vars, net_vars,
                   last_handled, seen, last_scheduled>>
    /\ UNCHANGED aux_vars

(***************************************************************************)
(* Entity removal and the external subscriber.                             *)
(***************************************************************************)
\* async_will_remove_from_hass (sensor.py 324-332, 561-571)
RemoveEntity(e) ==
    /\ phase \in {"ready", "unloaded"}
    /\ e \in DOMAIN entities /\ e \notin removed
    /\ removed' = removed \cup {e}
    /\ subscribers' = IF mqtt_enabled /\ has_subscription(entities[e])
                      THEN unsubscribe(subscribers, subscription_id(entities[e]))
                      ELSE subscribers
    /\ UNCHANGED <<setup_vars, poll_vars, entities, mqtt_value, mqtt_timestamp, client,
                   nclients, connected, waiting, timeout, queue, net_vars, history>>
    /\ UNCHANGED aux_vars

\* a caller of the listener's subscribe() registers a coroutine function for
\* stream 99 (as test_mqtt_listener.py does), and later unsubscribes it
SubscribeExternal ==
    /\ phase = "ready" /\ mqtt_enabled
    /\ Some(99) \notin DOMAIN subscribers
    /\ subscribers' = subscribe(subscribers, Some(99), ExternalCallback)
    /\ seen' = IF net_pc # "idle" /\ net_msg.Datastream[1].iot_id = Some(99)
               THEN seen \cup {ExternalCallback} ELSE seen
    /\ UNCHANGED <<setup_vars, poll_vars, entity_vars, client, nclients, connected,
                   waiting, timeout, queue, net_vars, last_handled, push_history,
                   notify_result, last_scheduled>>
    /\ UNCHANGED aux_vars

UnsubscribeExternal ==
    /\ phase = "ready" /\ mqtt_enabled
    /\ Some(99) \in DOMAIN subscribers
    /\ subscribers' = unsubscribe(subscribers, Some(99))
    /\ UNCHANGED <<setup_vars, poll_vars, entity_vars, client, nclients, connected,
                   waiting, timeout, queue, net_vars, history>>
    /\ UNCHANGED aux_vars

(***************************************************************************)
(* Commands that stop the listener.  loop_stop() joins the network thread, *)
(* so stop() goes on only when no paho callback is running.                *)
(***************************************************************************)
\* handle_reconnect_mqtt (__init__.py 114-135): stop() then start(), with no
\* suspension before start()'s wait loop
ReconnectWith(outcome) ==
    /\ phase = "ready" /\ mqtt_enabled
    /\ ~waiting
    /\ net_pc = "idle"
    /\ nclients < ClientLimit
    /\ start_begin(outcome, stop(listener))
    /\ topic_subscriptions' = topics_after_stop(listener, topic_subscriptions)
    /\ UNCHANGED <<setup_vars, coordinator_vars, binary_sensors, earlier_waits,
                   entity_vars, subscribers, queue, net_vars,
                   history, refresh_requested, recording>>

\* the command in which start() gets its client and its thread
Reconnect == ReconnectWith("started")

\* sensor.async_unload_entry (sensor.py 147-168) for an entry with a listener
Unload ==
    /\ phase = "ready" /\ mqtt_enabled
    /\ net_pc = "idle"
    /\ client' = stop(listener).client
    /\ connected' = connected_after_stop
    /\ live' = stop(listener).live
    /\ phase' = "unloaded"
    /\ topic_subscriptions' = topics_after_stop(listener, topic_subscriptions)
    /\ UNCHANGED <<mqtt_enabled, todo, coordinator_vars, binary_sensors, earlier_waits,
                   entity_vars, nclients, subscribers,
                   waiting, timeout, queue, net_vars, history, refresh_requested,
                   recording, observed>>

(***************************************************************************)
(* The client's network thread: the paho callbacks (mqtt_listener.py).     *)
(***************************************************************************)
net_running == client # None /\ client[1] \in live /\ ~net_dead

\* the connected flag after _on_connect(rc) (lines 122-135): rc 0 sets it,
\* any other code is logged
on_connect(flag, rc) == IF rc = 0 THEN TRUE ELSE flag

\* a callback that subscribes whatever the return code
on_connect_subscribe_any_code(topics, c, rc) == Append(topics, c)

\* _on_connect lines 130-131: client.subscribe(topic_pattern), on the client
\* the callback was called for, in the branch of rc == 0 only.  The callback
\* runs first on a new connection, which starts without subscriptions.
on_connect_subscribe(topics, c, rc) == IF rc = 0 THEN Append(topics, c) ELSE topics

\* _on_connect (lines 109-135): rc 0 is success.  paho calls it for the
\* CONNACK that answers a connection attempt, after _on_disconnect has ended
\* the connection before.
OnConnect(rc) ==
    /\ net_running /\ net_pc = "idle"
    /\ ~connected
    /\ connected' = on_connect(connected, rc)
    /\ topic_subscriptions' = on_connect_subscribe(<<>>, client[1], rc)
    /\ UNCHANGED aux_vars
    /\ UNCHANGED <<setup_vars, coordinator_vars, binary_sensors, earlier_waits,
                   entity_vars, client, nclients, subscribers,
                   waiting, timeout, queue, net_vars, history>>

\* a callback that resets the flag only for an unexpected disconnect
on_disconnect_unexpected_only(flag, rc) == IF rc # 0 THEN FALSE ELSE flag

\* the connected flag after _on_disconnect(rc) (lines 149-155): line 149
\* resets it, the return code only chooses the log line
on_disconnect(flag, rc) == FALSE

\* _on_disconnect (lines 137-155)
OnDisconnect(rc) ==
    /\ net_running /\ net_pc = "idle"
    /\ connected
    /\ connected' = on_disconnect(connected, rc)
    /\ topic_subscriptions' = <<>>
    /\ UNCHANGED <<setup_vars, coordinator_vars, binary_sensors, earlier_waits,
                   entity_vars, client, nclients, subscribers,
                   waiting, timeout, queue, net_vars, history>>
    /\ UNCHANGED aux_vars

\* whether message m is received right after a malformed one
after_malformed(m) == nmsgs > 0 /\ net_msg \in MalformedMessages

\* a variant without the membership test of line 196
has_subscriber_unchecked(subs, datastream_id) == TRUE

\* line 196: if datastream_id in self.subscribers
has_subscriber(subs, datastream_id) == datastream_id \in DOMAIN subs

\* _on_message returns (or an exception leaves it) without scheduling
finish(m, outcome) ==
    /\ net_pc' = "idle"
    /\ net_msg' = m
    /\ net_dead' = (outcome = "escaped")
    /\ last_handled' = [outcome |-> outcome, callback |-> None,
                         after_malformed |-> IF net_pc = "idle" THEN after_malformed(m)
                                             ELSE last_handled.after_malformed]
    /\ UNCHANGED <<seen, queue, mqtt_value, mqtt_timestamp, push_history,
                   last_scheduled>>

\* a variant that calls the subscriber from the network thread
call_directly(item) ==
    /\ invoke(item, "network", 1)
    /\ UNCHANGED queue

\* lines 201-204: asyncio.run_coroutine_threadsafe(self._notify_subscriber(...),
\* self.hass.loop) enqueues the coroutine on the main loop
run_coroutine_threadsafe(item) ==
    /\ queue' = Append(queue, item)
    /\ UNCHANGED <<mqtt_value, mqtt_timestamp, push_history>>

\* _on_message, lines 169-196: the message is decoded and checked, and the
\* registry is tested for its stream id
OnMessageBegin(m) ==
    /\ net_running /\ net_pc = "idle"
    /\ connected
    /\ nmsgs < MaxMsgs
    /\ nmsgs' = nmsgs + 1
    /\ IF parse_exception(m).type # ""
       THEN finish(m, exception_outcome(parse_exception(m)))
       ELSE IF m.iot_id = None THEN finish(m, "no_observation_id")
       ELSE IF ~passes_guard(m) THEN finish(m, "ignored")
       ELSE IF ~has_subscriber(subscribers, m.Datastream[1].iot_id)
            THEN finish(m, "no_subscriber")
       ELSE /\ net_pc' = "lookup"
            /\ net_msg' = m
            /\ seen' = IF m.Datastream[1].iot_id \in DOMAIN subscribers
                       THEN {subscribers[m.Datastream[1].iot_id]} ELSE {}
            /\ last_handled' = [outcome |-> "", callback |-> None,
                                after_malformed |-> after_malformed(m)]
            /\ UNCHANGED <<net_dead, queue, mqtt_value, mqtt_timestamp,
                           push_history, last_scheduled>>
    /\ UNCHANGED <<setup_vars, poll_vars, entities, removed, listener_vars, notify_result>>
    /\ UNCHANGED aux_vars

\* _on_message, lines 197-204: the callback is looked up and its notification
\* scheduled; the lookup raises KeyError when the entry has gone meanwhile
OnMessageLookup ==
    /\ net_pc = "lookup"
    /\ LET id == net_msg.Datastream[1].iot_id
       IN  IF id \in DOMAIN subscribers
           THEN LET item == [callback |-> subscribers[id],
                             value |-> net_msg.result,
                             timestamp |-> net_msg.phenomenonTime,
                             seq |-> nmsgs, stream |-> id]
                IN  /\ run_coroutine_threadsafe(item)
                    /\ net_pc' = "idle"
                    /\ last_handled' = [outcome |-> "scheduled",
                                        callback |-> Some(subscribers[id]),
                                        after_malformed |-> last_handled.after_malformed]
                    /\ last_scheduled' = [last_scheduled EXCEPT ![id] = Some(item)]
                    /\ UNCHANGED <<net_msg, net_dead, seen>>
           ELSE finish(net_msg, exception_outcome([type |-> "KeyError", inner |-> TRUE]))
    /\ UNCHANGED <<setup_vars, poll_vars, entities, removed, listener_vars, nmsgs,
                   notify_result>>
    /\ UNCHANGED aux_vars

(***************************************************************************)
(* The specification.                                                      *)
(***************************************************************************)
Next ==
    \/ SetupStart
    \/ StartWait
    \/ StartReturn
    \/ \E s \in PollResults : FirstRefresh(s)
    \/ FirstRefreshFails
    \/ CreateEntity
    \/ \E s \in PollResults : Poll(s)
    \/ PollFails
    \/ Notify
    \/ \E e \in EntityKeys : RemoveEntity(e)
    \/ Reconnect
    \/ Unload
    \/ \E rc \in {0, 5} : OnConnect(rc)
    \/ \E rc \in {0, 1} : OnDisconnect(rc)
    \/ \E m \in Messages : OnMessageBegin(m)
    \/ OnMessageLookup

Spec == Init /\ [][Next]_vars

\* The same program with a second user of the listener's registry
NextExternal ==
    \/ Next
    \/ SubscribeExternal
    \/ UnsubscribeExternal

SpecExternal == Init /\ [][NextExternal]_vars

(***************************************************************************)
(* Properties.                                                             *)
(***************************************************************************)
\* What the poll channel knows of stream datastream_id of Thing thing_id:
\* the result of the first Observation of that Datastream in the snapshot,
\* None when the Thing, the Datastream or its Observations are missing.
PolledResult(things, thing_id, datastream_id) ==
    LET places == UNION {{<<i, j>> : j \in 1..Len(things[i].Datastreams)} :
                            i \in 1..Len(things)}
        hits == {p \in places :
                    /\ things[p[1]].iot_id = thing_id
                    /\ things[p[1]].Datastreams[p[2]].iot_id = datastream_id
                    /\ things[p[1]].Datastreams[p[2]].Observations # <<>>}
    IN  IF hits = {} THEN None
        ELSE LET p == CHOOSE p \in hits : TRUE
             IN  things[p[1]].Datastreams[p[2]].Observations[1].result

Temp10 == <<"datastream", 10>>
Wind0 == <<"datastream", 0>>
Battery1 == <<"battery", 1>>

\* C1 (push dominance): once _on_mqtt_update has delivered a value to an
\* entity of either class, every read of native_value returns the value
\* delivered last, whatever polls, disconnects, stop() and reconnects follow.
C1_PushDominance ==
    \A e \in DOMAIN entities :
        last_pushed[e] # None => native_value(e) = Returned(last_pushed[e])

\* Both entities hold a pushed value (one of them the falsy 0) that differs
\* from what the current snapshot holds, and the listener has been stopped.
C1_Witness ==
    /\ phase = "unloaded" /\ client = None /\ ~connected
    /\ Temp10 \in DOMAIN entities /\ Battery1 \in DOMAIN entities
    /\ last_pushed[Temp10] = Some(0) /\ last_pushed[Battery1] = Some(23)
    /\ data # None
    /\ PolledResult(data[1], Some(1), Some(10)) = Some(21)
    /\ native_value(Temp10).value = Some(0)
    /\ native_value(Battery1).value = Some(23)

\* a message _on_message can dispatch: every field present, result not null
WellFormed(m) ==
    m.json /\ m.iot_id # None /\ m.Datastream # None
    /\ m.Datastream[1].iot_id # None /\ m.result # None

\* the step is _on_message receiving a message (lines 169-196)
ReceiveStep == nmsgs' = nmsgs + 1
\* the step is _on_message's lookup and scheduling (lines 197-204)
LookupStep == net_pc = "lookup" /\ net_pc' = "idle"
\* the step is the main loop running the first queued notification
NotifyStep == queue # <<>> /\ queue' = Tail(queue)

\* the coroutine _on_message schedules for the message it is handling
Scheduled(m, subs) ==
    [callback |-> subs[m.Datastream[1].iot_id], value |-> m.result,
     timestamp |-> m.phenomenonTime, seq |-> nmsgs', stream |-> m.Datastream[1].iot_id]

\* a well-formed message for a registered stream whose id satisfies Accepted
\* is scheduled for the stream's subscriber with (result, phenomenonTime), and
\* the entity reads the pushed result once the notification has run
C2_Delivered(Accepted(_)) ==
    /\ (ReceiveStep /\ WellFormed(net_msg')
        /\ Accepted(net_msg'.Datastream[1].iot_id)
        /\ net_msg'.Datastream[1].iot_id \in DOMAIN subscribers)
       => net_pc' = "lookup"
    /\ (LookupStep /\ net_msg.Datastream[1].iot_id \in DOMAIN subscribers)
       => queue' = Append(queue, Scheduled(net_msg, subscribers))
    /\ \A e \in DOMAIN entities :
          (NotifyStep /\ Head(queue).callback = e)
          => native_value(e)' = Returned(Head(queue).value)

AnyId(id) == TRUE

\* C2 (push delivery): a well-formed message whose stream id has a registered
\* subscriber is scheduled for that subscriber with (result, phenomenonTime),
\* and when the notification has run the entity reads the pushed result.
C2_PushDelivery == [][C2_Delivered(AnyId)]_vars

\* The part of C2 that holds: messages with a truthy stream id are delivered.
C2_TruthyIdsDelivered == [][C2_Delivered(Truthy)]_vars

C4_BatteryReadsSnapshot ==
    \A e \in DOMAIN entities :
        (entities[e].kind = "battery" /\ mqtt_value[e] = None /\ data # None)
        => native_value(e) =
             Returned(PolledResult(data[1], entities[e].thing.iot_id,
                                   entities[e].battery_datastream[1].iot_id))

(***************************************************************************)
(* Messages are swallowed, dropped or delivered.                           *)
(***************************************************************************)
\* what a step that only swallows or drops a message leaves alone
NothingDispatched ==
    /\ net_pc' = "idle" /\ ~net_dead'
    /\ UNCHANGED <<queue, subscribers, connected, client, mqtt_value, mqtt_timestamp,
                   invocations>>

\* handling a malformed payload raises nothing, schedules nothing and changes
\* neither the registry, the connection state nor any pushed value
C5_Swallowed ==
    (ReceiveStep /\ net_msg' \in MalformedMessages)
    => (NothingDispatched /\ last_handled'.outcome # "escaped")

\* a well-formed message for a registered stream whose id satisfies Accepted,
\* received right after a malformed one, is dispatched
C5_DispatchedAfterwards(Accepted(_)) ==
    /\ (ReceiveStep /\ last_handled'.after_malformed /\ WellFormed(net_msg')
        /\ Accepted(net_msg'.Datastream[1].iot_id)
        /\ net_msg'.Datastream[1].iot_id \in DOMAIN subscribers)
       => net_pc' = "lookup"
    /\ (LookupStep /\ last_handled.after_malformed
        /\ net_msg.Datastream[1].iot_id \in DOMAIN subscribers)
       => queue' = Append(queue, Scheduled(net_msg, subscribers))

\* C5 (malformed messages are swallowed): handling a payload that is not
\* JSON, or lacks the observation id, the Datastream, its id or a result,
\* raises nothing, schedules nothing and changes neither the registry, the
\* connection state nor any pushed value; a valid message for a registered
\* stream received right afterwards is dispatched to its subscriber.
C5_MalformedSwallowed ==
    [][C5_Swallowed /\ C5_DispatchedAfterwards(AnyId)]_vars

\* The part of C5 that holds: malformed payloads are swallowed, and messages
\* received right afterwards are dispatched when their stream id is truthy.
C5_SwallowedTruthyDispatched ==
    [][C5_Swallowed /\ C5_DispatchedAfterwards(Truthy)]_vars

\* C6 (unroutable messages are dropped): a well-formed message whose stream
\* id has no registry entry ends in the handler's "no subscriber" branch:
\* nothing is scheduled or invoked, nothing raised, nothing changed.
C6_UnroutableDropped ==
    [][ (ReceiveStep /\ WellFormed(net_msg')
         /\ net_msg'.Datastream[1].iot_id \notin DOMAIN subscribers)
        => (NothingDispatched
            /\ last_handled'.outcome \in {"no_subscriber", "ignored"})
      ]_vars

\* A message for stream 99 was dropped while other streams had subscribers.
C6_Witness ==
    /\ last_handled.outcome = "no_subscriber"
    /\ net_msg.Datastream = Some([iot_id |-> Some(99)])
    /\ subscribers # <<>>
    /\ net_pc = "idle" /\ ~net_dead

(***************************************************************************)
(* Subscriber faults and the handoff to the main loop.                     *)
(***************************************************************************)
\* _notify_subscriber calls the callback once with (value, timestamp), lets
\* no exception out, and the listener's client, flag and registry stay
C7_CalledOnceAndContained ==
    NotifyStep
    => /\ invocations' = [invocations EXCEPT ![Head(queue).callback] = @ + 1]
       /\ notify_result'.times = 1
       /\ notify_result'.args = <<Head(queue).value, Head(queue).timestamp>>
       /\ ~notify_result'.escaped
       /\ Head(queue).callback \in EntityKeys
          => /\ mqtt_value'[Head(queue).callback] = Head(queue).value
             /\ mqtt_timestamp'[Head(queue).callback] = Head(queue).timestamp
       /\ UNCHANGED <<client, connected, subscribers, net_pc, net_dead>>

\* after a callback has raised, a well-formed message for a registered stream
\* whose id satisfies Accepted is dispatched
C7_DispatchedAfterFault(Accepted(_)) ==
    /\ (ReceiveStep /\ notify_result.raised /\ WellFormed(net_msg')
        /\ Accepted(net_msg'.Datastream[1].iot_id)
        /\ net_msg'.Datastream[1].iot_id \in DOMAIN subscribers)
       => net_pc' = "lookup"
    /\ (LookupStep /\ notify_result.raised
        /\ net_msg.Datastream[1].iot_id \in DOMAIN subscribers)
       => queue' = Append(queue, Scheduled(net_msg, subscribers))

\* C7 (subscriber faults are contained): _notify_subscriber invokes a
\* synchronous or asynchronous callback exactly once with (value, timestamp)
\* and returns normally when it raises; client, connected flag and registry
\* are unchanged, and later messages for registered streams are dispatched.
C7_SubscriberFaultsContained ==
    [][C7_CalledOnceAndContained /\ C7_DispatchedAfterFault(AnyId)]_vars

\* The part of C7 that holds: exactly one call, nothing escapes, nothing of
\* the listener changes, and later messages with a truthy id are dispatched.
C7_ContainedTruthyDispatched ==
    [][C7_CalledOnceAndContained /\ C7_DispatchedAfterFault(Truthy)]_vars

\* C8 (cross-context handoff): no step of _on_message invokes a callback or
\* writes an entity's pushed value or timestamp; every invocation is a step
\* of the main loop running a queued notification, and every write of a
\* pushed value comes from the main context.
C8_CrossContextHandoff ==
    [][ /\ (ReceiveStep \/ LookupStep)
           => UNCHANGED <<invocations, mqtt_value, mqtt_timestamp>>
        /\ (invocations' # invocations \/ mqtt_value' # mqtt_value
            \/ mqtt_timestamp' # mqtt_timestamp)
           => (NotifyStep /\ UNCHANGED net_vars)
        /\ \A e \in EntityKeys : write_ctx'[e] \in {"", "main"}
      ]_vars

\* The handler has scheduled a message for stream 10 and is idle again, and
\* the entity's value was written by the main loop.
C8_Witness ==
    /\ last_handled.outcome = "scheduled"
    /\ last_handled.callback = Some(Temp10)
    /\ write_ctx[Temp10] = "main"
    /\ mqtt_value[Temp10] = net_msg.result
    /\ invocations[Temp10] = 1
    /\ queue = <<>>

\* C9 (registry safety under concurrency): whatever subscribe and unsubscribe
\* do between the handler's membership test and its lookup, no exception
\* leaves _on_message, the network thread lives on, and the handler either
\* schedules a callback that was registered for the stream id during the
\* handling or drops the message.
C9_RegistrySafety ==
    [][ /\ ~net_dead'
        /\ last_handled'.outcome # "escaped"
        /\ LookupStep
           => \/ /\ last_handled'.outcome = "scheduled"
                 /\ \E cb \in seen :
                       queue' = Append(queue, [callback |-> cb,
                                               value |-> net_msg.result,
                                               timestamp |-> net_msg.phenomenonTime,
                                               seq |-> nmsgs,
                                               stream |-> net_msg.Datastream[1].iot_id])
              \/ /\ last_handled'.outcome \in {"debug_logged", "error_logged"}
                 /\ UNCHANGED <<queue, invocations, mqtt_value, subscribers>>
        /\ (ReceiveStep /\ last_handled.outcome = "debug_logged")
           => last_handled'.outcome \in
                {"", "ignored", "no_subscriber", "no_observation_id",
                 "debug_logged", "error_logged"}
      ]_vars

\* The subscriber of the message's stream unsubscribed between the membership
\* test and the lookup: the lookup's KeyError was caught, the message was
\* dropped, and the network thread is ready for the next message.
C9_Witness ==
    /\ last_handled.outcome = "debug_logged"
    /\ WellFormed(net_msg)
    /\ net_msg.Datastream[1].iot_id \notin DOMAIN subscribers
    /\ seen # {}
    /\ queue = <<>>
    /\ net_running /\ net_pc = "idle" /\ connected /\ nmsgs < MaxMsgs

(***************************************************************************)
(* Order of delivery.                                                      *)
(***************************************************************************)
\* the queued notifications of stream id, in queue order
QueuedFor(id) == SelectSeq(queue, LAMBDA item : item.stream = id)

\* notifications of one stream are queued in the order of receipt, behind
\* everything already delivered to their callback
C10_InOrder ==
    \A id \in StreamIds :
        LET q == QueuedFor(id)
        IN  /\ \A i \in 1..Len(q) : delivered[q[i].callback] < q[i].seq
            /\ \A i \in 1..Len(q), j \in 1..Len(q) : i < j => q[i].seq < q[j].seq

\* when nothing is queued or being handled for an entity's stream, the
\* entity's pushed value is the result of the last message the handler
\* scheduled for the stream
C10_LastScheduledWins ==
    \A id \in StreamIds :
        (QueuedFor(id) = <<>> /\ last_scheduled[id] # None
         /\ last_scheduled[id][1].callback \in EntityKeys)
        => /\ mqtt_value[last_scheduled[id][1].callback] = last_scheduled[id][1].value
           /\ mqtt_timestamp[last_scheduled[id][1].callback]
                = last_scheduled[id][1].timestamp
           /\ delivered[last_scheduled[id][1].callback] = last_scheduled[id][1].seq

\* when the message received last was well-formed, for the stream of a
\* registered entity with an id that satisfies Accepted, and is no longer
\* queued or being handled, the entity's pushed value is its result
C10_LastReceivedWins(Accepted(_)) ==
    \A e \in DOMAIN entities :
        (/\ mqtt_enabled /\ e \notin removed /\ has_subscription(entities[e])
         /\ nmsgs > 0 /\ WellFormed(net_msg)
         /\ Accepted(net_msg.Datastream[1].iot_id)
         /\ net_msg.Datastream[1].iot_id = subscription_id(entities[e])
         /\ last_handled.outcome # "no_subscriber"
         /\ net_pc = "idle" /\ queue = <<>>)
        => mqtt_value[e] = net_msg.result

\* C10 (per-stream ordering): for one stream id the subscriber is invoked in
\* the order in which the handler received the messages, and when all queued
\* notifications have run the entity's pushed value is the result of the last
\* message received for the stream.
C10_PerStreamOrdering ==
    C10_InOrder /\ C10_LastScheduledWins /\ C10_LastReceivedWins(AnyId)

\* The part of C10 that holds: invocations follow the order of receipt, and
\* the last message scheduled (every last message with a truthy stream id)
\* decides the entity's pushed value.
C10_OrderOfScheduled ==
    C10_InOrder /\ C10_LastScheduledWins /\ C10_LastReceivedWins(Truthy)

(***************************************************************************)
(* The listener on its own: its methods called on a listener whose fields  *)
(* were set directly, as test_mqtt_listener.py does (lines 82, 89, 180-199 *)
(* set connected and client, lines 112-126 fill the registry).             *)
(***************************************************************************)
\* the ids and callbacks the calls use
UnitIds == {Some(0), Some(10)}
UnitCallbacks == {DatastreamEntity(Some(10)), ExternalCallback}

\* the registries over these ids
UnitRegistries == UNION {[D -> UnitCallbacks] : D \in SUBSET UnitIds}

InitUnit ==
    /\ InitOthers
    /\ domain_data = None
    /\ mqtt_enabled
    /\ client \in {None, Some(1)}
    /\ nclients = IF client = None THEN 0 ELSE 1
    /\ connected \in BOOLEAN
    /\ subscribers \in UnitRegistries
    /\ recording = TRUE

\* what a call on the listener leaves alone
unit_frame == <<setup_vars, coordinator_vars, binary_sensors, earlier_waits,
                   entity_vars, nclients, waiting, timeout, queue,
                net_vars, history, refresh_requested, recording>>

\* listener.is_connected()
UnitIsConnected ==
    /\ observed' = record("is_connected", None, Some(listener), Some(is_connected))
    /\ UNCHANGED <<unit_frame, topic_subscriptions, client, connected, live, subscribers>>

\* listener._on_connect(client, userdata, flags, rc)
UnitOnConnect(rc) ==
    /\ connected' = on_connect(connected, rc)
    /\ observed' = record("on_connect", Some(rc), Some(listener),
                          Some(on_connect(connected, rc)))
    /\ topic_subscriptions' = on_connect_subscribe(<<>>, 1, rc)
    /\ UNCHANGED <<unit_frame, client, live, subscribers>>

\* listener._on_disconnect(client, userdata, rc)
UnitOnDisconnect(rc) ==
    /\ connected' = on_disconnect(connected, rc)
    /\ observed' = record("on_disconnect", Some(rc), Some(listener),
                          Some(on_disconnect(connected, rc)))
    /\ UNCHANGED <<unit_frame, topic_subscriptions, client, live, subscribers>>

\* await listener.stop()
UnitStop ==
    /\ client' = stop(listener).client
    /\ connected' = stop(listener).connected
    /\ live' = stop(listener).live
    /\ observed' = record("stop", None, Some(listener), Some(stop(listener)))
    /\ topic_subscriptions' = topics_after_stop(listener, topic_subscriptions)
    /\ UNCHANGED <<unit_frame, subscribers>>

\* listener.subscribe(id, cb)
UnitSubscribe(id, cb) ==
    /\ subscribers' = subscribe(subscribers, id, cb)
    /\ observed' = record("subscribe", Some(<<id, cb>>), Some(subscribers), None)
    /\ UNCHANGED <<unit_frame, topic_subscriptions, client, connected, live>>

\* listener.unsubscribe(id)
UnitUnsubscribe(id) ==
    /\ subscribers' = unsubscribe(subscribers, id)
    /\ observed' = record("unsubscribe", Some(id), Some(subscribers), None)
    /\ UNCHANGED <<unit_frame, topic_subscriptions, client, connected, live>>

NextUnit ==
    \/ UnitIsConnected
    \/ \E rc \in {0, 1, 5} : UnitOnConnect(rc)
    \/ \E rc \in {0, 1} : UnitOnDisconnect(rc)
    \/ UnitStop
    \/ \E id \in UnitIds, cb \in UnitCallbacks : UnitSubscribe(id, cb)
    \/ \E id \in UnitIds : UnitUnsubscribe(id)

SpecUnit == InitUnit /\ [][NextUnit]_vars

\* C11: is_connected() is true exactly when the connected flag is true and
\* there is a client: of the four combinations of flag and client, only
\* (true, client) gives true; a stale flag without a client gives false.
C11_IsConnected ==
    observed.op = "is_connected" =>
        LET before == observed.before[1] IN
        /\ (before.connected /\ before.client # None) => observed.result = Some(TRUE)
        /\ (before.connected /\ before.client = None) => observed.result = Some(FALSE)
        /\ (~before.connected /\ before.client # None) => observed.result = Some(FALSE)
        /\ (~before.connected /\ before.client = None) => observed.result = Some(FALSE)

\* is_connected() was called with the flag set and no client, and said no
C11_Witness ==
    /\ observed.op = "is_connected"
    /\ observed.before[1].connected /\ observed.before[1].client = None
    /\ observed.result = Some(FALSE)
    /\ connected /\ client = None

\* C12: _on_connect with return code 0 sets the connected flag; with any
\* other return code the flag is false after the callback, whatever it was
\* before the callback.
C12_ConnectCallback ==
    observed.op = "on_connect" =>
        observed.result = Some(observed.arg = Some(0))

\* The part of C12 that holds: code 0 sets the flag, and another code leaves
\* a flag that was false at false.
C12_FlagSetOnlyBySuccess ==
    observed.op = "on_connect" =>
        /\ observed.arg = Some(0) => observed.result = Some(TRUE)
        /\ (observed.arg # Some(0) /\ ~observed.before[1].connected)
               => observed.result = Some(FALSE)

(***************************************************************************)
(* The entry's life as Home Assistant drives it: setups whose start()      *)
(* fails, update ticks, reconnects and the unload of the config entry.     *)
(***************************************************************************)
\* hass.data[DOMAIN][entry_id]: __init__.async_setup_entry stores entry.data
\* (line 47), sensor.async_setup_entry replaces it by the listener and the
\* coordinator (lines 142-145), both unload functions remove it
stored_data ==
    IF phase \in {"unloaded", "entry_unloaded"} THEN "absent"
    ELSE IF phase = "ready" THEN "listener_and_coordinator"
    ELSE "entry_data"

\* the registry after unsubscribe() for each of the ids
RECURSIVE unsubscribe_all(_, _)
unsubscribe_all(subs, ids) ==
    IF ids = {} THEN subs
    ELSE LET id == CHOOSE i \in ids : TRUE
         IN  unsubscribe_all(unsubscribe(subs, id), ids \ {id})

\* __init__.async_unload_entry (lines 58-77) returning True:
\* async_unload_platforms removes the platforms' entities, each of which runs
\* async_will_remove_from_hass, and the stored data is popped.  Nothing here
\* reaches the listener's stop().
UnloadEntry ==
    /\ phase = "ready"
    /\ removed' = DOMAIN entities
    /\ subscribers' =
          IF mqtt_enabled
          THEN unsubscribe_all(subscribers,
                   {subscription_id(entities[e]) :
                        e \in {x \in DOMAIN entities \ removed :
                                   has_subscription(entities[x])}})
          ELSE subscribers
    /\ phase' = "entry_unloaded"
    /\ observed' = record("unload_entry", None, Some(listener), Some(TRUE))
    /\ UNCHANGED <<mqtt_enabled, todo, poll_vars, entities, mqtt_value, mqtt_timestamp,
                   client, nclients, connected, waiting, timeout, queue, net_vars,
                   history, live, refresh_requested, recording>>

\* an async_update that asks for a refresh on every tick
requests_refresh_always(has_listener, listener_connected) == TRUE

\* the condition of async_update (sensor.py 320-321, 557-558)
requests_refresh(has_listener, listener_connected) ==
    ~has_listener \/ ~listener_connected

\* async_update of entity e (sensor.py 312-322, 549-559), which Home
\* Assistant calls on every SCAN_INTERVAL tick of a polled entity
AsyncUpdate(e) ==
    /\ phase = "ready"
    /\ e \in DOMAIN entities /\ e \notin removed
    /\ refresh_requested' =
          (refresh_requested \/ requests_refresh(mqtt_enabled, is_connected))
    /\ observed' = record("async_update", Some(e),
                          Some([has_listener |-> mqtt_enabled,
                                is_connected |-> is_connected,
                                pending |-> refresh_requested]),
                          Some(requests_refresh(mqtt_enabled, is_connected)))
    /\ UNCHANGED <<setup_vars, poll_vars, entity_vars, listener_vars, queue, net_vars,
                   history, live, recording>>

InitLifecycle == InitProgram /\ recording = TRUE

NextLifecycle ==
    \/ \E outcome \in StartOutcomes : SetupStartWith(outcome)
    \/ StartWait
    \/ StartReturn
    \/ \E s \in PollResults : FirstRefresh(s)
    \/ FirstRefreshFails
    \/ CreateEntity
    \/ \E s \in PollResults : Poll(s)
    \/ PollFails
    \/ \E e \in EntityKeys : RemoveEntity(e)
    \/ \E e \in EntityKeys : AsyncUpdate(e)
    \/ \E outcome \in StartOutcomes : ReconnectWith(outcome)
    \/ Unload
    \/ UnloadEntry
    \/ \E rc \in {0, 5} : OnConnect(rc)
    \/ \E rc \in {0, 1} : OnDisconnect(rc)

SpecLifecycle == InitLifecycle /\ [][NextLifecycle]_vars

\* The event loop resumes a coroutine that sleeps in start()'s wait loop: the
\* step of a waiting start() (one more sleep, or the return) is taken.
SpecLifecycleFair == SpecLifecycle /\ WF_vars(StartWait \/ StartReturn)

\* The entry with MQTT enabled under reconnect commands: setup, the
\* reconnect_mqtt command, the broker's callbacks and the pushed messages
InitReconnect == InitProgram /\ mqtt_enabled /\ recording = TRUE

NextReconnect ==
    \/ SetupStart
    \/ StartWait
    \/ StartReturn
    \/ \E s \in PollResults : FirstRefresh(s)
    \/ CreateEntity
    \/ Reconnect
    \/ \E rc \in {0, 5} : OnConnect(rc)
    \/ \E rc \in {0, 1} : OnDisconnect(rc)
    \/ \E m \in ValidMessages : OnMessageBegin(m)
    \/ OnMessageLookup
    \/ Notify

SpecReconnect == InitReconnect /\ [][NextReconnect]_vars

\* the step ends a start() that did not connect: its wait timed out, or
\* creating or connecting the client raised
StartFailed ==
    /\ observed'.started \in {"timeout", "raised"}
    /\ observed'.started # observed.started \/ nclients' # nclients

\* C13: start() is a soft failure point.  Its wait is bounded: the remaining
\* wait never exceeds the limit and only goes down while start() waits.  When
\* no success callback arrived during the wait, or creating or connecting the
\* client raised, start() returns with the connected flag false, and a setup
\* that awaited it goes on to the initial poll.  Every start() that waits
\* returns.
C13_StartSoftFailure ==
    /\ waiting ~> ~waiting
    /\ [][/\ waiting' => timeout' \in 0..WaitSteps
          /\ (waiting /\ waiting') => timeout' <= timeout
          /\ (waiting /\ waiting' /\ timeout' # timeout) => timeout' = timeout - 1
          /\ (waiting /\ ~waiting' /\ ~connected) => observed'.started = "timeout"
          /\ StartFailed =>
                /\ ~connected' /\ ~waiting'
                /\ phase \in {"init", "starting"} => phase' = "refresh"
                /\ phase = "ready" => phase' = "ready"]_vars

\* no client could be created, and the setup polled and created its entities
C13_Witness ==
    /\ mqtt_enabled /\ observed.started = "raised" /\ nclients = 0
    /\ phase = "ready" /\ data # None /\ DOMAIN entities # {}
    /\ ~connected /\ client = None

\* C14: the connect timeout cancels only the wait.  A start() that returns
\* on timeout leaves the client and its loop thread as they are, and when a
\* success callback arrives afterwards, with no start() in between, the flag
\* is set and is_connected() is true.
C14_TimeoutCancelsOnlyWait ==
    [][/\ (waiting /\ ~waiting' /\ observed'.started = "timeout")
          => client' = client /\ live' = live /\ connected' = connected
       /\ (observed.started = "timeout" /\ observed'.started = "timeout"
           /\ nclients' = nclients /\ ~connected /\ connected')
          => is_connected']_vars

\* the only start() timed out, and the listener is connected all the same
C14_Witness ==
    /\ observed.started = "timeout" /\ nclients = 1 /\ ~waiting
    /\ is_connected /\ client = Some(1) /\ 1 \in live

\* C15: stop() resets the listener and is idempotent: from every state,
\* also one with a stale connected flag and no client, the client handle is
\* null and the connected flag false after stop(), and a second stop()
\* changes nothing.
C15_StopResets ==
    observed.op = "stop" =>
        LET after == observed.result[1] IN
        /\ after.client = None /\ ~after.connected
        /\ stop(after) = after

\* The part of C15 that holds: stop() resets a listener that has a client or
\* whose flag is false, and a second stop() never changes anything.
C15_StopResetsWithClient ==
    observed.op = "stop" =>
        LET before == observed.before[1]
            after == observed.result[1]
        IN  /\ (before.client # None \/ ~before.connected)
                  => (after.client = None /\ ~after.connected /\ after.live = {})
            /\ stop(after) = after

\* In the running integration the flag is never set without a client, so
\* there stop() resets the listener from every state.
C15_StopResetsWhenRunning ==
    /\ ~(connected /\ client = None)
    /\ stop(listener).client = None /\ ~stop(listener).connected
    /\ stop(stop(listener)) = stop(listener)

\* the step is the reconnect_mqtt command (stop() then start() up to its wait)
ReconnectStep == phase = "ready" /\ nclients' = nclients + 1

\* after the command the listener has one live client, the new one; the
\* clients made before are stopped; the registry is the one before
C16_OneClientSameRegistry ==
    ReconnectStep =>
        /\ client' = Some(nclients') /\ live' = {nclients'}
        /\ Cardinality(live') = 1
        /\ \A c \in 1..nclients : c \notin live'
        /\ subscribers' = subscribers

\* the reconnect_mqtt command has run twice
ReconnectedTwice == nclients >= 3

\* C16: the reconnect_mqtt command, invoked twice in a row, stops and starts
\* the listener each time and leaves exactly one live client and the registry
\* that was there before, so that the entities subscribed before the commands
\* receive the pushes that arrive afterwards.
C16_ReconnectIdempotent ==
    [][/\ C16_OneClientSameRegistry
       /\ ReconnectedTwice => C2_Delivered(AnyId)]_vars

\* The part of C16 that holds: one live client and an unchanged registry
\* after every reconnect, and delivery afterwards to the entities whose
\* stream id is truthy.
C16_ReconnectKeepsTruthyPushes ==
    [][/\ C16_OneClientSameRegistry
       /\ ReconnectedTwice => C2_Delivered(Truthy)]_vars

\* after two reconnects a message is accepted through the third client
C16_AcceptedAfterReconnects ==
    /\ ReconnectedTwice /\ live = {3} /\ client = Some(3)
    /\ DOMAIN subscribers # {} /\ net_pc = "lookup"

\* the config entry has been unloaded with success
Unloaded == phase \in {"unloaded", "entry_unloaded"}

\* the push channel is torn down: no client handle, flag false, no loop thread
TornDown == client = None /\ ~connected /\ live = {}

\* C17: when the unload of a config entry whose listener was started has
\* returned success, with or without a refresh pending, the listener's client
\* is loop-stopped and disconnected, the client handle is null, the connected
\* flag is false and the entry's stored data is removed.
C17_UnloadTearsDown ==
    (Unloaded /\ mqtt_enabled /\ nclients > 0) =>
        (TornDown /\ stored_data = "absent")

\* The part of C17 that holds: the platform's own async_unload_entry
\* (sensor.py 147-168) stops the listener, and the unload of the entry
\* removes the entities' subscriptions.
C17_PlatformUnloadStops ==
    /\ phase = "unloaded" => TornDown
    /\ phase = "entry_unloaded" =>
          \A id \in DOMAIN subscribers :
              \A e \in DOMAIN entities :
                  has_subscription(entities[e]) => subscription_id(entities[e]) # id

\* registries a and b agree on every id but id
SameElsewhere(a, b, id) ==
    /\ DOMAIN a \ {id} = DOMAIN b \ {id}
    /\ \A k \in DOMAIN a \ {id} : a[k] = b[k]

\* C18: subscribe(id, cb) makes cb the callback of id, replacing an earlier
\* one; unsubscribe(id) removes the entry of id and changes nothing when
\* there is none; neither changes the entry of another id.  The registry
\* holds one callback for an id, the one subscribed last.
C18_RegistrySemantics ==
    /\ observed.op = "subscribe" =>
          LET id == observed.arg[1][1]
              cb == observed.arg[1][2]
          IN  /\ id \in DOMAIN subscribers /\ subscribers[id] = cb
              /\ SameElsewhere(subscribers, observed.before[1], id)
    /\ observed.op = "unsubscribe" =>
          LET id == observed.arg[1]
          IN  /\ id \notin DOMAIN subscribers
              /\ id \notin DOMAIN observed.before[1]
                    => subscribers = observed.before[1]
              /\ SameElsewhere(subscribers, observed.before[1], id)

\* subscribe() replaced the callback of an id and left the other entry alone
C18_Witness ==
    /\ observed.op = "subscribe"
    /\ LET id == observed.arg[1][1]
           cb == observed.arg[1][2]
           before == observed.before[1]
       IN  /\ id \in DOMAIN before /\ before[id] # cb
           /\ subscribers[id] = cb
           /\ \E k \in DOMAIN before : k # id /\ subscribers[k] = before[k]

\* entity e was created with a listener and subscribed under some stream id
Subscribed(e) == mqtt_enabled /\ e \in DOMAIN entities /\ has_subscription(entities[e])

\* C19: async_will_remove_from_hass of an entity that has a listener
\* unsubscribes the stream id the entity subscribed with and no other id;
\* from then on the registry has no entry for that id, and a later message
\* for that stream is dropped without a dispatch.
C19_TeardownUnsubscribes ==
    /\ [](\A e \in removed :
              Subscribed(e) => subscription_id(entities[e]) \notin DOMAIN subscribers)
    /\ [][\A e \in EntityKeys :
            /\ (e \notin removed /\ e \in removed' /\ Subscribed(e))
               => /\ subscription_id(entities[e]) \notin DOMAIN subscribers'
                  /\ SameElsewhere(subscribers', subscribers,
                                   subscription_id(entities[e]))
            /\ (e \in removed /\ Subscribed(e) /\ ReceiveStep /\ WellFormed(net_msg')
                /\ net_msg'.Datastream[1].iot_id = subscription_id(entities[e]))
               => /\ NothingDispatched
                  /\ last_handled'.outcome \in {"no_subscriber", "ignored"}]_vars

\* an entity was pushed to, then removed while another entry stayed in the
\* registry, and the next message for the entity's stream found no subscriber
C19_Witness ==
    \E e \in removed :
        /\ Subscribed(e)
        /\ subscribers # <<>>
        /\ delivered[e] > 0 /\ delivered[e] < nmsgs
        /\ net_pc = "idle" /\ WellFormed(net_msg)
        /\ net_msg.Datastream[1].iot_id = subscription_id(entities[e])
        /\ last_handled.outcome = "no_subscriber"

\* the step is an update tick of an entity that changes the recorded call
UpdateTick ==
    /\ observed'.op = "async_update" /\ observed'.started = observed.started
    /\ observed.op # "async_update" \/ observed' # observed

\* C20: an update tick requests a coordinator refresh exactly when the entity
\* has no listener or the listener is not connected at that moment; a request
\* comes up only in such a state, and a tick while the push channel is
\* connected requests nothing.
C20_RefreshPolicy ==
    [][/\ (~refresh_requested /\ refresh_requested')
          => (~mqtt_enabled \/ ~connected \/ client = None)
       /\ (UpdateTick /\ (~mqtt_enabled \/ ~connected \/ client = None))
          => (refresh_requested' /\ observed'.result = Some(TRUE))
       /\ (UpdateTick /\ mqtt_enabled /\ connected /\ client # None)
          => (refresh_requested' = refresh_requested
              /\ observed'.result = Some(FALSE))]_vars

\* an update tick came while the listener was connected and asked for nothing
C20_Witness ==
    /\ observed.op = "async_update" /\ observed.result = Some(FALSE)
    /\ observed.before[1].has_listener /\ observed.before[1].is_connected
    /\ mqtt_enabled /\ is_connected /\ ~refresh_requested

(***************************************************************************)
(* The fetch operation async_fetch_data (sensor.py 87-109) by the response *)
(* it gets, and the coordinator's refresh that calls it.                   *)
(***************************************************************************)
\* A response: the transport failed (session.get raised), or a status came
\* with a body that is no JSON, JSON that is no object, or an object whose
\* "value" is absent, null (value = None) or a list of Things.
Response(transport, status, json, object, has_value, value) ==
    [transport |-> transport, status |-> status, json |-> json, object |-> object,
     has_value |-> has_value, value |-> value]

OkResponse(things) == Response("ok", 200, TRUE, TRUE, TRUE, Some(things))

Responses ==
    {OkResponse(s) : s \in PollResults}
    \cup { Response("ok", 200, TRUE, TRUE, FALSE, None),       \* {} : no "value"
           Response("ok", 200, TRUE, TRUE, TRUE, None),         \* {"value": null}
           Response("ok", 200, TRUE, FALSE, FALSE, None),       \* a JSON list
           Response("ok", 200, FALSE, FALSE, FALSE, None),      \* not JSON
           Response("ok", 404, TRUE, TRUE, TRUE, Some(<<>>)),
           Response("ok", 500, FALSE, FALSE, FALSE, None),
           Response("error", 0, FALSE, FALSE, FALSE, None) }

\* the exception the try body of lines 100-107 ends with, "" when it returns
fetch_try_exception(resp) ==
    IF resp.transport = "error" THEN "ClientError"
    ELSE IF resp.status # 200 THEN "UpdateFailed"
    ELSE IF ~resp.json THEN "ContentTypeError"
    ELSE IF ~resp.object THEN "AttributeError"
    ELSE ""

\* an except clause that catches transport errors only
fetch_except_client_error(exception) ==
    IF exception = "ClientError" THEN "UpdateFailed" ELSE exception

\* lines 108-109: except Exception as err: raise UpdateFailed(...) from err
fetch_except(exception) ==
    IF exception # "" THEN "UpdateFailed" ELSE ""

\* what async_fetch_data ends with: the exception that leaves it, or the
\* data it returns, data.get("value", [])
async_fetch_data(resp) ==
    [exception |-> fetch_except(fetch_try_exception(resp)),
     data |-> IF fetch_try_exception(resp) # "" THEN None
              ELSE IF resp.has_value THEN resp.value
              ELSE Some(<<>>)]

\* a refresh that stores what the fetch returned thing by thing
store_in_place(old, new) ==
    IF old # None /\ new # None /\ old[1] # <<>> /\ new[1] # <<>>
    THEN Some(<<new[1][1]>> \o Tail(old[1]))
    ELSE new

\* the coordinator takes the list the fetch returned as its data
store_snapshot(old, new) == new

\* a refresh of the coordinator that gets response resp: the data are
\* replaced when the fetch returns and kept when it raises UpdateFailed
Fetch(resp) ==
    /\ phase \in {"ready", "unloaded"}
    /\ data' = IF async_fetch_data(resp).exception = ""
               THEN store_snapshot(data, async_fetch_data(resp).data)
               ELSE data
    /\ refresh_requested' = FALSE
    /\ observed' = record("fetch", Some(resp), Some(data), Some(async_fetch_data(resp)))
    /\ UNCHANGED <<setup_vars, scan_interval, update_interval, service_vars,
                   topic_subscriptions, binary_sensors, earlier_waits,
                   entity_vars,
                   listener_vars, queue, net_vars, history,
                   live, recording>>

\* The entry under the responses its poll channel can get
InitPolling == InitProgram /\ recording = TRUE

NextPolling ==
    \/ SetupStart
    \/ StartWait
    \/ StartReturn
    \/ \E s \in PollResults : FirstRefresh(s)
    \/ FirstRefreshFails
    \/ CreateEntity
    \/ \E resp \in Responses : Fetch(resp)
    \/ \E e \in EntityKeys : AsyncUpdate(e)
    \/ \E rc \in {0, 5} : OnConnect(rc)
    \/ \E rc \in {0, 1} : OnDisconnect(rc)

SpecPolling == InitPolling /\ [][NextPolling]_vars

\* the step is a refresh that changes the recorded call
FetchStep ==
    /\ observed'.op = "fetch" /\ observed'.started = observed.started
    /\ observed.op # "fetch" \/ observed' # observed

\* the failures of the fetch operation: a transport error, a status other
\* than 200, a body that cannot be decoded
FailedResponse(resp) ==
    resp.transport = "error" \/ resp.status # 200 \/ ~resp.json

\* C22: every failure of the fetch (transport error, non-200 status,
\* undecodable body) leaves async_fetch_data as UpdateFailed and as no other
\* exception; after a failed fetch the snapshot is the one before, every
\* entity reads what it read before, and the entry stays in the state in
\* which the next poll comes.
C22_PollFailure ==
    [][/\ (observed'.op = "fetch" /\ FailedResponse(observed'.arg[1]))
          => observed'.result[1].exception = "UpdateFailed"
       /\ (observed'.op = "fetch")
          => observed'.result[1].exception \in {"", "UpdateFailed"}
       /\ (FetchStep /\ observed'.result[1].exception # "")
          => /\ data' = data /\ phase' = phase
             /\ \A e \in DOMAIN entities : native_value(e)' = native_value(e)]_vars

\* a fetch failed on a bad status, the snapshot of before is still there and
\* an entity without a pushed value reads its polled result from it
C22_Witness ==
    /\ observed.op = "fetch" /\ observed.arg[1].status = 500
    /\ observed.result[1].exception = "UpdateFailed"
    /\ data # None /\ data = observed.before[1] /\ phase = "ready"
    /\ \E e \in DOMAIN entities :
          /\ mqtt_value[e] = None
          /\ native_value(e).value # None


\* what coordinator.data can hold: nothing before the first refresh, or the
\* whole value one successful fetch returned
WholeSnapshots ==
    {None} \cup {async_fetch_data(resp).data :
                    resp \in {r \in Responses : async_fetch_data(r).exception = ""}}

\* C23: the snapshot is at all times the whole result of one fetch (or absent),
\* every step that changes it puts the whole result of one fetch in its place,
\* and a read of a Datastream entity without pushed value is the scan of that
\* one tree.
C23_AtomicSnapshot ==
    /\ [](data \in WholeSnapshots)
    /\ [][/\ data' # data => data' \in WholeSnapshots
          /\ FetchStep /\ observed'.result[1].exception = ""
                => data' = observed'.result[1].data]_vars

C23_Witness ==
    /\ observed.op = "fetch"
    /\ observed.before[1] = Some(<<Thing(1, <<Datastream(10, Temp, <<Obs(22, 1)>>),
                                   Datastream(11, BatteryLevel, <<Obs(85, 1)>>)>>)>>)
    /\ data = Some(<<Thing(2, <<Datastream(0, Wind, <<>>)>>),
                     Thing(1, <<Datastream(11, BatteryLevel, <<Obs(80, 2)>>)>>)>>)
    /\ <<"datastream", 10>> \in DOMAIN entities
    /\ mqtt_value[<<"datastream", 10>>] = None
    /\ native_value(<<"datastream", 10>>) = Returned(None)


(***************************************************************************)
(* The options flow and the poll interval.  The options flow class         *)
(* (SensorThingsOptionsFlow, imported by test_options_flow.py from         *)
(* config_flow) is absent from the source tree; it is modelled from the    *)
(* specification: a scan interval is accepted within [10 s, 3600 s].       *)
(***************************************************************************)
MinScanInterval == 10
MaxScanInterval == 3600

\* scan intervals a user submits
ScanInputs == {1, 5, 9, 10, 11, 45, 60, 120, 3599, 3600, 3601, 7200}

\* SensorThingsOptionsFlow.async_step_init(user_input): the form again with
\* errors, or the entry whose data becomes entry.options
options_flow_init(user_input) ==
    IF user_input.scan_interval >= MinScanInterval
       /\ user_input.scan_interval <= MaxScanInterval
    THEN [type |-> "create_entry", errors |-> FALSE, data |-> Some(user_input)]
    ELSE [type |-> "form", errors |-> TRUE, data |-> None]

\* the user submits the options form of the entry
OptionsFlow(user_input) ==
    /\ scan_interval' = IF options_flow_init(user_input).type = "create_entry"
                        THEN Some(user_input.scan_interval)
                        ELSE scan_interval
    /\ observed' = record("options_flow", Some(user_input), Some(scan_interval),
                          Some(options_flow_init(user_input)))
    /\ UNCHANGED <<setup_vars, data, update_interval, service_vars,
                   topic_subscriptions, binary_sensors, earlier_waits,
                   entity_vars,
                   listener_vars, queue,
                   net_vars, history, live, refresh_requested, recording>>

InitOptions == InitProgram /\ recording = TRUE

NextOptions ==
    \/ \E n \in ScanInputs : OptionsFlow([scan_interval |-> n])
    \/ SetupStart
    \/ StartWait
    \/ StartReturn
    \/ \E s \in PollResults : FirstRefresh(s)
    \/ FirstRefreshFails
    \/ CreateEntity

SpecOptions == InitOptions /\ [][NextOptions]_vars

OptionsStep ==
    /\ observed'.op = "options_flow"
    /\ observed'.started = observed.started
    /\ observed.op # "options_flow" \/ observed' # observed \/ scan_interval' # scan_interval

ConnectivityListeners == {None, Some("mqtt_listener")}

\* an is_on that keeps what the last start() of the listener found
connectivity_is_on_at_start(l) == l # None /\ observed.started = "connected"

\* SensorThingsConnectivity.is_on
connectivity_is_on(l) == IF l = None THEN FALSE ELSE is_connected

\* SensorThingsConnectivity.icon
connectivity_icon(l) == IF connectivity_is_on(l) THEN "mdi:wifi" ELSE "mdi:wifi-off"

\* Home Assistant reads the state and the icon of a connectivity entity
ConnectivityRead(l) ==
    /\ l # None => mqtt_enabled
    /\ observed' = record("connectivity", Some(l), Some(listener),
                          Some([is_on |-> connectivity_is_on(l),
                                icon |-> connectivity_icon(l)]))
    /\ UNCHANGED <<setup_vars, poll_vars, entity_vars, listener_vars, queue, net_vars,
                   history, live, refresh_requested, recording>>

InitConnectivity == InitProgram /\ recording = TRUE

NextConnectivity ==
    \/ \E outcome \in StartOutcomes : SetupStartWith(outcome)
    \/ StartWait
    \/ StartReturn
    \/ \E s \in PollResults : FirstRefresh(s)
    \/ FirstRefreshFails
    \/ CreateEntity
    \/ \E outcome \in StartOutcomes : ReconnectWith(outcome)
    \/ Unload
    \/ \E rc \in {0, 5} : OnConnect(rc)
    \/ \E rc \in {0, 1} : OnDisconnect(rc)
    \/ \E l \in ConnectivityListeners : ConnectivityRead(l)

SpecConnectivity == InitConnectivity /\ [][NextConnectivity]_vars

ConnectivityStep ==
    /\ observed'.op = "connectivity"
    /\ observed'.started = observed.started
    /\ observed.op # "connectivity" \/ observed' # observed

\* C25: a read of a connectivity entity returns true exactly when the entity
\* has a listener whose flag is set and whose client exists at that moment,
\* with the icon 'mdi:wifi' when true and 'mdi:wifi-off' when false, and the
\* read changes nothing of the listener.
C25_ConnectivityReporter ==
    [][ConnectivityStep
        => /\ observed'.result[1].is_on
                = (observed'.arg[1] # None /\ connected' /\ client' # None)
           /\ observed'.result[1].icon
                = IF observed'.arg[1] # None /\ connected' /\ client' # None
                  THEN "mdi:wifi" ELSE "mdi:wifi-off"
           /\ UNCHANGED <<client, connected, live, subscribers>>]_vars

C25_Witness ==
    /\ observed.op = "connectivity"
    /\ observed.arg[1] # None
    /\ observed.result[1] = [is_on |-> TRUE, icon |-> "mdi:wifi"]
    /\ nclients = 2
    /\ is_connected


(***************************************************************************)
(* The entities' callback and reads, called on the entities of a set-up    *)
(* entry as Home Assistant and the listener call them.                     *)
(***************************************************************************)
\* battery levels around the icon's thresholds
BatteryLevels == {0, 10, 11, 25, 26, 50, 51, 75, 76}

\* the (value, timestamp) pairs _on_mqtt_update is called with: a Datastream
\* entity gets a result with or without a time, a battery entity a level
PushArgs(e) ==
    IF e[1] = "battery"
    THEN {<<Some(v), Some(2)>> : v \in BatteryLevels}
    ELSE {<<None, None>>, <<Some(0), Some(1)>>, <<Some(23), Some(1)>>,
          <<Some(23), Some(2)>>}

\* entity._on_mqtt_update(value, timestamp)
EntityOnMqttUpdate(e, value, timestamp) ==
    /\ phase = "ready"
    /\ e \in DOMAIN entities
    /\ mqtt_value' = [mqtt_value EXCEPT ![e] =
                        on_mqtt_update(entity_fields(e), value, timestamp).mqtt_value]
    /\ mqtt_timestamp' = [mqtt_timestamp EXCEPT ![e] =
                        on_mqtt_update(entity_fields(e), value, timestamp).mqtt_timestamp]
    /\ last_pushed' = [last_pushed EXCEPT ![e] = value]
    /\ write_ctx' = [write_ctx EXCEPT ![e] = "main"]
    /\ observed' = record("on_mqtt_update",
                          Some([entity |-> e, value |-> value, timestamp |-> timestamp]),
                          Some(entity_fields(e)),
                          Some(on_mqtt_update(entity_fields(e), value, timestamp)))
    /\ UNCHANGED <<setup_vars, poll_vars, entities, removed, listener_vars, queue,
                   net_vars, last_handled, seen, invocations, delivered, notify_result,
                   last_scheduled, live, refresh_requested, recording>>

\* a native_value that hands a pushed value out once
native_value_read_once(e) ==
    [value |-> native_value(e), self |-> [mqtt_value |-> None, mqtt_timestamp |-> None]]

\* the property native_value: what it returns and the entity's fields after it
native_value_read(e) == [value |-> native_value(e), self |-> entity_fields(e)]

\* an icon whose tiers begin at their thresholds
battery_icon_inclusive(battery_level) ==
    IF battery_level = None THEN "mdi:battery-unknown"
    ELSE IF battery_level[1] >= 75 THEN "mdi:battery"
    ELSE IF battery_level[1] >= 50 THEN "mdi:battery-75"
    ELSE IF battery_level[1] >= 25 THEN "mdi:battery-50"
    ELSE IF battery_level[1] >= 10 THEN "mdi:battery-25"
    ELSE "mdi:battery-alert"

\* SensorThingsBatteryLevel.icon, of battery_level = self.native_value
battery_icon(battery_level) ==
    IF battery_level = None THEN "mdi:battery-unknown"
    ELSE IF battery_level[1] > 75 THEN "mdi:battery"
    ELSE IF battery_level[1] > 50 THEN "mdi:battery-75"
    ELSE IF battery_level[1] > 25 THEN "mdi:battery-50"
    ELSE IF battery_level[1] > 10 THEN "mdi:battery-25"
    ELSE "mdi:battery-alert"

\* Home Assistant reads native_value of entity e
ReadNativeValue(e) ==
    /\ e \in DOMAIN entities
    /\ mqtt_value' = [mqtt_value EXCEPT ![e] = native_value_read(e).self.mqtt_value]
    /\ mqtt_timestamp' = [mqtt_timestamp EXCEPT ![e] =
                            native_value_read(e).self.mqtt_timestamp]
    /\ observed' = record("native_value", Some(e), Some(entity_fields(e)),
                          Some(native_value_read(e).value))
    /\ UNCHANGED <<setup_vars, poll_vars, entities, removed, listener_vars, queue,
                   net_vars, history, live, refresh_requested, recording>>

\* Home Assistant reads icon of battery entity e
ReadIcon(e) ==
    /\ e \in DOMAIN entities
    /\ entities[e].kind = "battery"
    /\ mqtt_value' = [mqtt_value EXCEPT ![e] = native_value_read(e).self.mqtt_value]
    /\ mqtt_timestamp' = [mqtt_timestamp EXCEPT ![e] =
                            native_value_read(e).self.mqtt_timestamp]
    /\ observed' = record("icon", Some(e), Some(native_value_read(e).value.value),
                          Some(battery_icon(native_value_read(e).value.value)))
    /\ UNCHANGED <<setup_vars, poll_vars, entities, removed, listener_vars, queue,
                   net_vars, history, live, refresh_requested, recording>>

InitEntity == InitProgram /\ recording = TRUE

NextEntity ==
    \/ SetupStart
    \/ StartWait
    \/ StartReturn
    \/ \E s \in PollResults : FirstRefresh(s)
    \/ CreateEntity
    \/ \E s \in PollResults : Fetch(OkResponse(s))
    \/ \E e \in EntityKeys : \E a \in PushArgs(e) : EntityOnMqttUpdate(e, a[1], a[2])
    \/ \E e \in EntityKeys : ReadNativeValue(e)
    \/ \E e \in EntityKeys : ReadIcon(e)
    \/ \E l \in ConnectivityListeners : ConnectivityRead(l)
    \/ \E rc \in {0, 5} : OnConnect(rc)
    \/ \E rc \in {0, 1} : OnDisconnect(rc)

SpecEntity == InitEntity /\ [][NextEntity]_vars

PushStep ==
    /\ observed'.op = "on_mqtt_update"
    /\ observed'.started = observed.started
    /\ observed.op # "on_mqtt_update" \/ observed' # observed

\* C26: a call _on_mqtt_update(value, timestamp) leaves the entity with
\* exactly that value and that timestamp, whatever it held before and whatever
\* the snapshot holds, and makes one request for a state update.
C26_PushUnconditional ==
    [][PushStep
        => /\ mqtt_value'[observed'.arg[1].entity] = observed'.arg[1].value
           /\ mqtt_timestamp'[observed'.arg[1].entity] = observed'.arg[1].timestamp
           /\ observed'.result[1].state_updates = 1
           /\ \A e \in EntityKeys \ {observed'.arg[1].entity} :
                 mqtt_value'[e] = mqtt_value[e] /\ mqtt_timestamp'[e] = mqtt_timestamp[e]
      ]_vars

\* an older push has replaced a newer one
C26_Witness ==
    /\ observed.op = "on_mqtt_update"
    /\ observed.arg[1] = [entity |-> <<"datastream", 10>>, value |-> Some(0),
                          timestamp |-> Some(1)]
    /\ observed.before[1] = [mqtt_value |-> Some(23), mqtt_timestamp |-> Some(2)]
    /\ mqtt_value[<<"datastream", 10>>] = Some(0)
    /\ mqtt_timestamp[<<"datastream", 10>>] = Some(1)
    /\ native_value(<<"datastream", 10>>) = Returned(Some(0))


ReadStep ==
    /\ observed'.op \in {"native_value", "icon", "connectivity"}
    /\ observed'.started = observed.started
    /\ observed.op # observed'.op \/ observed' # observed

\* C27: a read of native_value, icon or is_on changes no pushed value or
\* timestamp, nor the snapshot, the registry or the connection state, and a
\* read of native_value that follows a read of the same entity with no call
\* in between returns the same value.
C27_ReadsArePure ==
    [][/\ ReadStep
            => UNCHANGED <<mqtt_value, mqtt_timestamp, data, subscribers, connected,
                           client, live>>
       /\ (/\ ReadStep
           /\ observed.op = "native_value" /\ observed'.op = "native_value"
           /\ observed'.arg = observed.arg)
            => observed'.result = observed.result
       /\ \A e \in EntityKeys :
            (observed'.op = "native_value" /\ ReadStep /\ observed'.arg[1] = e)
                => observed'.result[1] = native_value(e)'
      ]_vars

\* a pushed value has been read, and it is still there for the next read
C27_Witness ==
    /\ observed.op = "native_value"
    /\ observed.arg[1] = <<"datastream", 10>>
    /\ observed.result[1] = Returned(Some(23))
    /\ mqtt_value[<<"datastream", 10>>] = Some(23)
    /\ data # None
    /\ connected


IconStep ==
    /\ observed'.op = "icon"
    /\ observed'.started = observed.started
    /\ observed.op # "icon" \/ observed' # observed

\* the tier of the battery icon for level v, as the claim lists them
IconTier(v) ==
    IF v > 75 THEN "mdi:battery"
    ELSE IF 50 < v /\ v <= 75 THEN "mdi:battery-75"
    ELSE IF 25 < v /\ v <= 50 THEN "mdi:battery-50"
    ELSE IF 10 < v /\ v <= 25 THEN "mdi:battery-25"
    ELSE "mdi:battery-alert"

UpperBattery == <<"B", "A", "T", "T", "E", "R", "Y">>
SolarPower == <<"S", "o", "l", "a", "r", " ", "P", "o", "w", "e", "r">>
MainsPower == <<"m", "a", "i", "n", "s", " ", "P", "O", "W", "E", "R">>
Batt == <<"B", "a", "t", "t">>

\* what the first fetch can return: in one Thing two battery-like streams, a
\* battery-like stream with id 0, names in capitals, a Thing without streams
InitialSnapshots ==
    PollResults \cup
    { <<Thing(1, <<Datastream(10, Temp, <<Obs(22, 1)>>),
                   Datastream(11, UpperBattery, <<Obs(85, 1)>>),
                   Datastream(0, SolarPower, <<Obs(50, 1)>>)>>)>>,
      <<Thing(1, <<Datastream(0, BatteryLevel, <<Obs(85, 1)>>),
                   Datastream(10, Temp, <<>>)>>),
        Thing(2, <<Datastream(11, Wind, <<>>)>>)>>,
      <<Thing(2, <<Datastream(10, Batt, <<>>),
                   Datastream(11, MainsPower, <<Obs(76, 2)>>)>>)>>,
      <<Thing(1, <<>>)>> }

InitCreate == InitProgram /\ recording = TRUE

NextCreate ==
    \/ SetupStart
    \/ StartWait
    \/ StartReturn
    \/ \E s \in InitialSnapshots : FirstRefresh(s)
    \/ CreateEntity
    \/ \E rc \in {0, 5} : OnConnect(rc)
    \/ \E rc \in {0, 1} : OnDisconnect(rc)
    \/ \E m \in ValidMessages : OnMessageBegin(m)
    \/ OnMessageLookup
    \/ Notify

SpecCreate == InitCreate /\ [][NextCreate]_vars

\* the names of the snapshots that hold "battery" or "power" in any case
BatteryLikeNames == {BatteryLevel, UpperBattery, SolarPower, MainsPower}

\* the first Datastream of the Thing with such a name, in snapshot order
FirstBatteryLike(thing) ==
    LET js == {j \in DOMAIN thing.Datastreams :
                  thing.Datastreams[j].name \in BatteryLikeNames}
    IN  IF js = {} THEN None
        ELSE Some(thing.Datastreams[CHOOSE j \in js : \A k \in js : j <= k])

\* how many entities of that name are constructed or about to be
CreatedCount(name) ==
    (IF name \in DOMAIN entities THEN 1 ELSE 0)
    + Cardinality({i \in DOMAIN todo : todo[i].name = name})

\* the classification and the entities per Thing of the first snapshot
SplitOf(thing) ==
    /\ \A j \in DOMAIN thing.Datastreams :
        LET ds == thing.Datastreams[j]
        IN  /\ is_battery_datastream(ds) <=> ds.name \in BatteryLikeNames
            /\ CreatedCount(DatastreamEntity(ds.iot_id))
                 = IF ds.name \in BatteryLikeNames THEN 0 ELSE 1
    /\ CreatedCount(BatteryEntity(thing.iot_id))
         = IF FirstBatteryLike(thing) = None THEN 0 ELSE 1

\* the battery entity of the Thing holds the first battery-like Datastream and
\* reports its polled result while nothing was pushed
BatteryHolds(thing) ==
    (FirstBatteryLike(thing) # None /\ BatteryEntity(thing.iot_id) \in DOMAIN entities)
        => /\ entities[BatteryEntity(thing.iot_id)].battery_datastream
                = FirstBatteryLike(thing)
           /\ mqtt_value[BatteryEntity(thing.iot_id)] = None
                => native_value(BatteryEntity(thing.iot_id))
                     = Returned(IF FirstBatteryLike(thing)[1].Observations = <<>>
                                THEN None
                                ELSE FirstBatteryLike(thing)[1].Observations[1].result)

\* with a listener, the battery entity is the subscriber of that Datastream
BatterySubscribed(thing) ==
    (/\ mqtt_enabled
     /\ FirstBatteryLike(thing) # None
     /\ BatteryEntity(thing.iot_id) \in DOMAIN entities)
        => /\ FirstBatteryLike(thing)[1].iot_id \in DOMAIN subscribers
           /\ subscribers[FirstBatteryLike(thing)[1].iot_id]
                = BatteryEntity(thing.iot_id)

\* a pushed observation of that Datastream, received once the entry is set
\* up, is handed to the battery entity
BatteryFed(thing) ==
    (/\ phase = "ready" /\ mqtt_enabled
     /\ FirstBatteryLike(thing) # None
     /\ nmsgs' = nmsgs + 1 \/ net_pc = "lookup"
     /\ net_pc' = "idle"
     /\ net_msg' \in ValidMessages
     /\ net_msg'.Datastream[1].iot_id = FirstBatteryLike(thing)[1].iot_id)
        => /\ last_handled'.outcome = "scheduled"
           /\ last_handled'.callback = Some(BatteryEntity(thing.iot_id))

\* C28 (as claimed): per Thing of the first snapshot a Datastream is
\* battery-like exactly when its lowercased name contains "battery" or
\* "power", each other Datastream gets one generic sensor and a battery-like
\* one none, the Thing gets one battery entity exactly when it has a
\* battery-like Datastream, and that entity holds, subscribes to and is fed
\* by the first battery-like Datastream in snapshot order.
C28_BatterySplit ==
    /\ [](phase \in {"create", "ready"}
            => \A i \in DOMAIN data[1] :
                  /\ SplitOf(data[1][i])
                  /\ BatteryHolds(data[1][i])
                  /\ BatterySubscribed(data[1][i]))
    /\ [][data # None => \A i \in DOMAIN data[1] : BatteryFed(data[1][i])]_vars

\* C28 (the part that holds): the same for every Thing whose first
\* battery-like Datastream has an id that Python takes as true.
C28_BatterySplitTruthyIds ==
    /\ [](phase \in {"create", "ready"}
            => \A i \in DOMAIN data[1] :
                  /\ SplitOf(data[1][i])
                  /\ BatteryHolds(data[1][i])
                  /\ (FirstBatteryLike(data[1][i]) # None
                      /\ Truthy(FirstBatteryLike(data[1][i])[1].iot_id))
                        => BatterySubscribed(data[1][i]))
    /\ [][data # None
            => \A i \in DOMAIN data[1] :
                 (FirstBatteryLike(data[1][i]) # None
                  /\ Truthy(FirstBatteryLike(data[1][i])[1].iot_id))
                    => BatteryFed(data[1][i])]_vars

\* the battery entity of a Thing with two battery-like Datastreams has been
\* handed a push of the first one
C28_Witness ==
    /\ phase = "ready"
    /\ \E i \in DOMAIN data[1] :
         /\ Len(data[1][i].Datastreams) = 3
         /\ data[1][i].Datastreams[2].name = UpperBattery
         /\ data[1][i].Datastreams[3].name = SolarPower
    /\ Some(11) \in DOMAIN subscribers
    /\ subscribers[Some(11)] = <<"battery", 1>>
    /\ Some(0) \notin DOMAIN subscribers
    /\ <<"datastream", 11>> \notin DOMAIN entities
    /\ mqtt_value[<<"battery", 1>>] = Some(23)


(***************************************************************************)
(* The service refresh_all (__init__.py handle_refresh_all).  The dict     *)
(* hass.data[DOMAIN] is the sequence of its items in insertion order; a    *)
(* popped item leaves its place behind, as in the dict's entry table.      *)
(***************************************************************************)
EntryOrder == <<"entry1", "entry2", "entry3">>

\* an item: its key, whether entry_data.get("coordinator") is truthy, and
\* whether the key is still in the dict
Item(id, coordinator, present) ==
    [id |-> id, coordinator |-> coordinator, present |-> present]

\* the dicts the services can find: no DOMAIN key at all, or any of the three
\* entries stored with a coordinator (sensor.py 142-145) or without one
\* (entry.data of __init__.py 47, or the listener alone as in test_services.py)
Stores ==
    {None} \cup
    { Some(SelectSeq([i \in DOMAIN EntryOrder |->
                         Item(EntryOrder[i], f[EntryOrder[i]] = "coordinator",
                              f[EntryOrder[i]] # "absent")],
                     LAMBDA item : item.present)) :
        f \in [EntryIds -> {"absent", "coordinator", "no_coordinator"}] }

\* len() of the dict
dict_size(items) == Cardinality({i \in DOMAIN items : items[i].present})

\* hass.data.get(DOMAIN, {})
domain_items == IF domain_data = None THEN <<>> ELSE domain_data[1]

\* places after pos whose entry has a coordinator: where the loop calls
\* async_request_refresh next
refresh_places(items, pos) ==
    {i \in DOMAIN items : i > pos /\ items[i].present /\ items[i].coordinator}

\* handle_refresh_all, lines 105-111, from the iterator's place pos up to the
\* next await: entries without a coordinator are passed over, the first one
\* with a coordinator gets async_request_refresh(), the end of the dict ends
\* the handler
refresh_loop(items, pos) ==
    IF refresh_places(items, pos) = {}
    THEN [pc |-> "done", pos |-> Len(items), requested |-> None]
    ELSE LET i == CHOOSE i \in refresh_places(items, pos) :
                     \A k \in refresh_places(items, pos) : i <= k
         IN  [pc |-> "loop", pos |-> i, requested |-> Some(items[i].id)]

run_refresh_loop(items, pos, used) ==
    /\ refresh_all' = [pc |-> refresh_loop(items, pos).pc,
                       pos |-> refresh_loop(items, pos).pos, used |-> used]
    /\ refresh_requests' =
         IF refresh_loop(items, pos).requested = None THEN refresh_requests
         ELSE [refresh_requests EXCEPT ![refresh_loop(items, pos).requested[1]] = @ + 1]

services_frame == <<setup_vars, data, scan_interval, update_interval,
                    topic_subscriptions, binary_sensors, earlier_waits,
                   entity_vars,
                    listener_vars, queue, net_vars, history, aux_vars>>

\* the service is called: the for statement makes its iterator and the loop
\* runs to its first await
RefreshAllCall ==
    /\ refresh_all.pc = "idle"
    /\ run_refresh_loop(domain_items, 0, dict_size(domain_items))
    /\ UNCHANGED <<domain_data, services_frame>>

\* the awaited async_request_refresh() has returned: the iterator's next step
\* raises RuntimeError when the dict's size has changed, else the loop goes on
RefreshAllResume ==
    /\ refresh_all.pc = "loop"
    /\ IF dict_size(domain_items) # refresh_all.used
       THEN /\ refresh_all' = [refresh_all EXCEPT !.pc = "raised"]
            /\ UNCHANGED refresh_requests
       ELSE run_refresh_loop(domain_items, refresh_all.pos, refresh_all.used)
    /\ UNCHANGED <<domain_data, services_frame>>

\* __init__.async_unload_entry of a stored entry, line 76:
\* hass.data[DOMAIN].pop(entry.entry_id)
UnloadStored(id) ==
    /\ domain_data # None
    /\ \E i \in DOMAIN domain_data[1] :
         /\ domain_data[1][i].id = id
         /\ domain_data[1][i].present
         /\ domain_data' = Some([domain_data[1] EXCEPT ![i].present = FALSE])
    /\ UNCHANGED <<refresh_all, refresh_requests, services_frame>>

InitServices ==
    /\ InitOthers
    /\ client = None
    /\ nclients = 0
    /\ connected = FALSE
    /\ subscribers = <<>>
    /\ recording = FALSE
    /\ domain_data \in Stores

NextServices ==
    \/ RefreshAllCall
    \/ RefreshAllResume
    \/ \E id \in EntryIds : UnloadStored(id)

SpecServices == InitServices /\ [][NextServices]_vars

\* what the claim says of an ended command
RefreshedAll ==
    /\ \A i \in DOMAIN domain_items :
         domain_items[i].present
            => refresh_requests[domain_items[i].id]
                 = IF domain_items[i].coordinator THEN 1 ELSE 0
    /\ domain_items = <<>>
         => /\ refresh_all.pc = "done"
            /\ \A id \in EntryIds : refresh_requests[id] = 0

\* C30 (as claimed): when refresh_all has ended, every stored entry with a
\* coordinator has had exactly one refresh requested and no entry without
\* one has; with no entry data stored the command ends without error having
\* requested nothing.
C30_RefreshAll ==
    refresh_all.pc \in {"done", "raised"} => RefreshedAll

\* C30 (the part that holds): the same whenever the command returns.
C30_RefreshAllReturned ==
    refresh_all.pc = "done" => RefreshedAll

\* two coordinators refreshed, the entry without one passed over
C30_Witness ==
    /\ refresh_all.pc = "done"
    /\ dict_size(domain_items) = 3
    /\ \E id \in EntryIds : refresh_requests[id] = 0
    /\ Cardinality({id \in EntryIds : refresh_requests[id] = 1}) = 2

(***************************************************************************)
(* The two commands when a call they await raises (test_services.py        *)
(* 122-156 gives async_request_refresh and stop() a side effect).          *)
(***************************************************************************)
\* handle_refresh_all, line 111: the awaited async_request_refresh() raises.
\* The call stands in no try block, so the exception leaves the handler and
\* the entries after this one are not looked at.
RefreshAllRefreshRaises ==
    /\ refresh_all.pc = "loop"
    /\ refresh_all' = [refresh_all EXCEPT !.pc = "raised"]
    /\ UNCHANGED <<domain_data, refresh_requests, services_frame>>

\* where stop() can raise: in loop_stop() (line 103) or in disconnect() (105)
StopFaults == {"loop_stop", "disconnect"}

\* the listener after a stop() that raised at fault: the lines before it ran
stop_raising(l, fault) ==
    IF fault = "disconnect"
    THEN [client |-> l.client, connected |-> l.connected,
          live |-> l.live \ {l.client[1]}]
    ELSE l

\* handle_reconnect_mqtt, line 133: the awaited stop() raises.  The call
\* stands in no try block: the exception leaves the handler, start() of line
\* 134 is never called.
ReconnectStopRaises(fault) ==
    /\ phase = "ready" /\ mqtt_enabled
    /\ ~waiting
    /\ net_pc = "idle"
    /\ client # None
    /\ live' = stop_raising(listener, fault).live
    /\ observed' = record("reconnect_mqtt", Some(fault), Some(listener), Some("raised"))
    /\ UNCHANGED <<setup_vars, poll_vars, entity_vars, listener_vars, queue, net_vars,
                   history, refresh_requested, recording>>

\* the stores of test_services.py: none, one coordinator, two coordinators
\* and an entry without one
CommandStores ==
    {None,
     Some(<<Item("entry1", TRUE, TRUE)>>),
     Some(<<Item("entry1", TRUE, TRUE), Item("entry2", TRUE, TRUE),
            Item("entry3", FALSE, TRUE)>>)}

InitCommands ==
    /\ InitOthers
    /\ mqtt_enabled
    /\ client = None
    /\ nclients = 0
    /\ connected = FALSE
    /\ subscribers = <<>>
    /\ recording = TRUE
    /\ domain_data \in CommandStores

NextCommands ==
    \/ RefreshAllCall
    \/ RefreshAllResume
    \/ RefreshAllRefreshRaises
    \/ SetupStart
    \/ StartWait
    \/ StartReturn
    \/ \E s \in PollResults : FirstRefresh(s)
    \/ CreateEntity
    \/ \E rc \in {0, 5} : OnConnect(rc)
    \/ \E rc \in {0, 1} : OnDisconnect(rc)
    \/ Reconnect
    \/ \E fault \in StopFaults : ReconnectStopRaises(fault)

SpecCommands == InitCommands /\ [][NextCommands]_vars

\* C31: a command in which an entry's call raised still completes without
\* raising to its caller: refresh_all never ends raised, and reconnect_mqtt
\* never ends raised.
C31_CommandsContainFailures ==
    /\ refresh_all.pc # "raised"
    /\ observed.op = "reconnect_mqtt" => observed.result # Some("raised")

(***************************************************************************)
(* The config flow's validation of a base URL (config_flow.py              *)
(* _validate_and_create_entry).                                            *)
(***************************************************************************)
\* a URL the user enters or picks, with the hostname urlparse finds in it
Url(text, hostname) == [text |-> text, hostname |-> hostname]

Urls ==
    {Url("http://192.168.1.100:8080/FROST-Server/v1.1", "192.168.1.100"),
     Url("http://frost.local/v1.1", "frost.local"),
     Url("https://example.org/FROST-Server/v1.1", "example.org"),
     Url("http://invalid-url", "invalid-url")}

\* how the probe GET {url}/Datastreams?$top=1 ends: with an exception raised
\* by session.get or on entering the response, or with a response status
Probe(exception, status) == [exception |-> exception, status |-> status]

ProbeExceptions ==
    {"ClientError", "ClientConnectorError", "ServerTimeoutError", "TimeoutError",
     "OSError", "Exception"}

ProbeStatuses == {200, 201, 204, 301, 401, 404, 500, 503}

Probes ==
    {Probe(e, 0) : e \in ProbeExceptions} \cup {Probe("", s) : s \in ProbeStatuses}

\* line 346: except aiohttp.ClientError catches the class and its subclasses
is_client_error(exception) ==
    exception \in {"ClientError", "ClientConnectorError", "ServerTimeoutError"}

\* the step results
FlowForm == [type |-> "form", step_id |-> "manual", errors |-> Some("cannot_connect"),
             title |-> None, data |-> None]
FlowCreateEntry(url) == [type |-> "create_entry", step_id |-> "", errors |-> None,
                         title |-> Some(url.hostname), data |-> Some(url.text)]
FlowRaised == [type |-> "raised", step_id |-> "", errors |-> None,
               title |-> None, data |-> None]

\* _validate_and_create_entry(url), lines 326-351
validate_and_create_entry(url, probe) ==
    IF probe.exception # ""
    THEN IF is_client_error(probe.exception) THEN FlowForm ELSE FlowRaised
    ELSE IF probe.status = 200 THEN FlowCreateEntry(url)
    ELSE FlowForm

\* what the flow showed last: nothing yet, or the result of its last step
flow_shows == IF observed.op = "validate" THEN observed.result[1].type ELSE "form"

\* async_step_manual with a URL (lines 306-310): the flow is open as long as
\* its last step showed a form
ValidateAndCreateEntry(url, probe) ==
    /\ phase = "init"
    /\ flow_shows = "form"
    /\ observed' = record("validate", Some(<<url, probe>>), Some(observed.op),
                          Some(validate_and_create_entry(url, probe)))
    /\ UNCHANGED <<setup_vars, poll_vars, entity_vars, listener_vars, queue, net_vars,
                   history, live, refresh_requested, recording>>

InitConfigFlow == InitProgram /\ mqtt_enabled /\ recording = TRUE

NextConfigFlow == \E url \in Urls, probe \in Probes : ValidateAndCreateEntry(url, probe)

SpecConfigFlow == InitConfigFlow /\ [][NextConfigFlow]_vars

\* the probe answered HTTP 200
ProbeOk(probe) == probe.exception = "" /\ probe.status = 200

\* C32 (as claimed): an entry is created if and only if the probe answers
\* HTTP 200; any other status and any failure of the probe, a client error
\* or any other exception, gives the manual form with a 'base' error and no
\* entry.
C32_BaseUrlValidation ==
    observed.op = "validate" =>
        LET probe == observed.arg[1][2]
            result == observed.result[1]
        IN  /\ result.type = "create_entry" <=> ProbeOk(probe)
            /\ ~ProbeOk(probe) =>
                  /\ result.type = "form" /\ result.step_id = "manual"
                  /\ result.errors # None
                  /\ result.data = None

\* C32 (the part that holds): the same for every status and for the failures
\* that are client errors.
C32_ValidationOfStatusAndClientErrors ==
    observed.op = "validate" =>
        LET probe == observed.arg[1][2]
            result == observed.result[1]
        IN  /\ result.type = "create_entry" <=> ProbeOk(probe)
            /\ (~ProbeOk(probe)
                  /\ (probe.exception = "" \/ is_client_error(probe.exception))) =>
                  /\ result.type = "form" /\ result.step_id = "manual"
                  /\ result.errors # None
                  /\ result.data = None

\* a 404 showed the form again, and the next probe's 200 created the entry
C32_Witness ==
    /\ observed.op = "validate"
    /\ observed.before = Some("validate")
    /\ observed.result[1].type = "create_entry"
    /\ observed.result[1].data = Some(observed.arg[1][1].text)

(***************************************************************************)
(* The disconnect callback.                                                *)
(***************************************************************************)
\* the step is a call of _on_disconnect
DisconnectStep ==
    /\ observed'.op = "on_disconnect"
    /\ observed.op # "on_disconnect" \/ observed' # observed
    /\ observed'.started = observed.started

\* C33: _on_disconnect sets the connected flag to false for every return
\* code, 0 or not, with the same effect on the state, and leaves the client
\* handle and the subscriber registry unchanged.
C33_DisconnectCallback ==
    /\ [](observed.op = "on_disconnect" => observed.result = Some(FALSE))
    /\ [][DisconnectStep =>
            /\ connected' = FALSE
            /\ client' = client
            /\ subscribers' = subscribers
            /\ UNCHANGED <<unit_frame, topic_subscriptions, live>>]_vars

\* an expected disconnect (code 0) reset the flag of a connected listener
\* that keeps its client and its registry
C33_Witness ==
    /\ observed.op = "on_disconnect"
    /\ observed.arg = Some(0)
    /\ observed.before[1].connected
    /\ ~connected
    /\ client # None
    /\ subscribers # <<>>

(***************************************************************************)
(* The topic subscription of a connection.                                 *)
(***************************************************************************)
\* the step is a successful connect callback: only _on_connect sets the flag
ConnectedStep == connected' /\ ~connected

thing_ids(things) == [i \in DOMAIN things |-> things[i].iot_id]

\* binary_sensor.async_setup_entry lines 31-59, reading the data stored under
\* the entry: entry.data has no "mqtt_listener" key, the dict of sensor.py
\* 142-145 has the listener (None when MQTT is off) and the coordinator
binary_sensor_setup(stored, has_listener, snapshot) ==
    IF stored = "absent" THEN <<>>                                     \* line 31
    ELSE IF ~(stored = "listener_and_coordinator" /\ has_listener)
         THEN <<>>                                                     \* line 38
    ELSE IF snapshot = None \/ snapshot[1] = <<>> THEN <<>>            \* line 45
    ELSE thing_ids(snapshot[1])                                        \* lines 52-59

\* the binary_sensor platform's setup runs
BinarySensorSetup ==
    /\ binary_sensors = None
    /\ phase \in {"init", "starting", "refresh", "create", "ready", "failed"}
    /\ binary_sensors' = Some([stored |-> stored_data,
                               sensors |-> binary_sensor_setup(stored_data, mqtt_enabled,
                                                               data)])
    /\ UNCHANGED <<setup_vars, coordinator_vars, topic_subscriptions, earlier_waits,
                   entity_vars, listener_vars, queue, net_vars, history, aux_vars>>

InitPlatforms == InitProgram /\ recording = FALSE

NextPlatforms ==
    \/ SetupStart
    \/ StartWait
    \/ StartReturn
    \/ \E s \in PollResults : FirstRefresh(s)
    \/ FirstRefreshFails
    \/ CreateEntity
    \/ \E rc \in {0, 5} : OnConnect(rc)
    \/ \E rc \in {0, 1} : OnDisconnect(rc)
    \/ BinarySensorSetup

SpecPlatforms == InitPlatforms /\ [][NextPlatforms]_vars

\* both platform setups of the entry have ended, the sensor platform's well
PlatformsSetUp == phase = "ready" /\ binary_sensors # None

\* what the claim says the binary_sensor platform has created
ConnectivitySensorsOf(has_listener, snapshot) ==
    IF has_listener /\ snapshot # None /\ snapshot[1] # <<>>
    THEN thing_ids(snapshot[1])
    ELSE <<>>

\* C35 (as claimed): when the push channel is enabled and the initial poll
\* returned at least one Thing, the entry's setup creates exactly one
\* connectivity sensor per Thing, whichever platform setup runs first; with
\* no listener or no snapshot data it creates none.
C35_ConnectivityPerThing ==
    PlatformsSetUp =>
        binary_sensors[1].sensors = ConnectivitySensorsOf(mqtt_enabled, data)

\* C35 (the part that holds): the same when the binary_sensor platform's
\* setup found the data the sensor platform stores at its end.
C35_ConnectivityPerThingAfterSensors ==
    (PlatformsSetUp /\ binary_sensors[1].stored = "listener_and_coordinator") =>
        binary_sensors[1].sensors = ConnectivitySensorsOf(mqtt_enabled, data)

\* two Things, two connectivity sensors
C35_Witness ==
    /\ PlatformsSetUp
    /\ mqtt_enabled
    /\ binary_sensors[1].sensors = <<Some(2), Some(1)>>

(***************************************************************************)
(* Commands that overtake a start() which still waits.  stop() has no      *)
(* await and start() none before its wait loop, so the handler's stop()    *)
(* and the beginning of its start() are one step; the coroutine that       *)
(* waited before goes on waiting on the same flag, with its own timeout.   *)
(***************************************************************************)
\* handle_reconnect_mqtt (__init__.py 127-135) while an earlier start() of
\* the stored listener is in its wait loop
ReconnectOverlapping(outcome) ==
    /\ phase = "ready" /\ mqtt_enabled
    /\ waiting
    /\ net_pc = "idle"
    /\ nclients < ClientLimit
    /\ start_begin(outcome, stop(listener))
    /\ topic_subscriptions' = topics_after_stop(listener, topic_subscriptions)
    /\ earlier_waits' = Append(earlier_waits, timeout)
    /\ UNCHANGED <<setup_vars, coordinator_vars, binary_sensors, entity_vars, subscribers,
                   queue, net_vars, history, refresh_requested, recording>>

\* the sequence without its i-th element
remove_at(seq, i) == [k \in 1..(Len(seq) - 1) |-> IF k < i THEN seq[k] ELSE seq[k + 1]]

\* one iteration of an overtaken start()'s wait loop (lines 78-80)
EarlierStartWait(i) ==
    /\ i \in DOMAIN earlier_waits
    /\ earlier_waits[i] > 0 /\ ~connected
    /\ earlier_waits' = [earlier_waits EXCEPT ![i] = @ - 1]
    /\ UNCHANGED <<setup_vars, coordinator_vars, topic_subscriptions, binary_sensors,
                   entity_vars, listener_vars, queue, net_vars, history, aux_vars>>

\* an overtaken start() leaves its wait loop and returns (lines 82-86): it
\* logs a warning or an info and touches nothing
EarlierStartReturn(i) ==
    /\ i \in DOMAIN earlier_waits
    /\ ~(earlier_waits[i] > 0 /\ ~connected)
    /\ earlier_waits' = remove_at(earlier_waits, i)
    /\ client' = after_wait(listener).client
    /\ connected' = after_wait(listener).connected
    /\ live' = after_wait(listener).live
    /\ UNCHANGED <<setup_vars, coordinator_vars, topic_subscriptions, binary_sensors,
                   entity_vars, nclients, subscribers, waiting, timeout, queue, net_vars,
                   history, refresh_requested, recording, observed>>

InitOverlap == InitProgram /\ mqtt_enabled /\ recording = TRUE

NextOverlap ==
    \/ \E outcome \in StartOutcomes : SetupStartWith(outcome)
    \/ StartWait
    \/ StartReturn
    \/ \E s \in PollResults : FirstRefresh(s)
    \/ CreateEntity
    \/ \E outcome \in StartOutcomes : ReconnectWith(outcome)
    \/ \E outcome \in StartOutcomes : ReconnectOverlapping(outcome)
    \/ \E i \in 1..MaxClients : EarlierStartWait(i)
    \/ \E i \in 1..MaxClients : EarlierStartReturn(i)
    \/ Unload
    \/ \E rc \in {0, 5} : OnConnect(rc)
    \/ \E rc \in {0, 1} : OnDisconnect(rc)

SpecOverlap == InitOverlap /\ [][NextOverlap]_vars

\* C36: in every reachable state at most one broker client of the listener
\* has been started (loop_start) and not yet stopped, also when a
\* reconnect_mqtt command is invoked while an earlier start(), from setup or
\* from a previous reconnect, still waits for its connection.
C36_OneLiveClient ==
    /\ Cardinality(live) <= 1
    /\ live # {} => client # None /\ live = {client[1]}

\* a reconnect overtook a start() that still waits: the second client was
\* stopped, the third is the only one whose loop runs
C36_Witness ==
    /\ earlier_waits # <<>>
    /\ waiting
    /\ nclients = 3
    /\ live = {3}

(***************************************************************************)
(* Deliveries and the end of an entity.                                    *)
(***************************************************************************)
\* C37 (as claimed): once an entity's unsubscribe has completed, its
\* _on_mqtt_update is never invoked again and its pushed value never
\* changes, not even for a message whose handler looked the callback up
\* before the unsubscribe and whose notification was still queued.
C37_NoDeliveryAfterTeardown ==
    [][\A e \in removed :
          /\ invocations'[e] = invocations[e]
          /\ mqtt_value'[e] = mqtt_value[e]
          /\ mqtt_timestamp'[e] = mqtt_timestamp[e]]_vars

\* C37 (the part that holds): once an entity's unsubscribe has completed, no
\* message handler that starts afterwards schedules a notification for it:
\* the queue gets a new item for the entity only from a handler that passed
\* the registry test before the unsubscribe.
C37_NothingScheduledAfterTeardown ==
    [][\A e \in removed :
          (Len(queue') > Len(queue) /\ queue'[Len(queue')].callback = e)
              => e \in seen]_vars


(***************************************************************************)
(* What the handling of one pushed message touches.                        *)
(***************************************************************************)
\* the entities registered under a stream id other than id
SubscribedElsewhere(id) ==
    {subscribers[i] : i \in {k \in DOMAIN subscribers : k # id}} \cap DOMAIN entities

\* the entity registered under id, if any
SubscribedTo(id) ==
    IF id \in DOMAIN subscribers THEN {subscribers[id]} ELSE {}

\* entity e's pushed value and timestamp are as before the step
PushUntouched(e) ==
    mqtt_value'[e] = mqtt_value[e] /\ mqtt_timestamp'[e] = mqtt_timestamp[e]

\* the step leaves the snapshot and the connection state alone
SnapshotAndConnectionUntouched ==
    data' = data /\ connected' = connected /\ client' = client

\* the entities subscribed to other streams than id keep their pushed and
\* their visible values
OthersUntouched(id) ==
    \A e \in SubscribedElsewhere(id) :
        PushUntouched(e) /\ native_value(e)' = native_value(e)

\* C38 (as claimed): handling a push message for stream A changes the pushed
\* value and timestamp of at most the one entity currently subscribed to A;
\* the pushed and visible values of the entities subscribed to other stream
\* ids, the snapshot and the connection state are unchanged.
C38_StreamIsolation ==
    [][/\ (ReceiveStep \/ LookupStep) =>
             /\ \A e \in EntityKeys : PushUntouched(e)
             /\ SnapshotAndConnectionUntouched
       /\ NotifyStep =>
             /\ \A e \in EntityKeys :
                   ~PushUntouched(e) => e \in SubscribedTo(Head(queue).stream)
             /\ OthersUntouched(Head(queue).stream)
             /\ SnapshotAndConnectionUntouched]_vars

\* C38 (the part that holds): the handling changes the pushed value and
\* timestamp of at most the one entity that was subscribed to A when the
\* handler looked its callback up, and leaves the entities subscribed to
\* other stream ids, the snapshot and the connection state alone.
C38_OtherStreamsUntouched ==
    [][/\ (ReceiveStep \/ LookupStep) =>
             /\ \A e \in EntityKeys : PushUntouched(e)
             /\ SnapshotAndConnectionUntouched
       /\ NotifyStep =>
             /\ \A e \in EntityKeys :
                   ~PushUntouched(e) => e = Head(queue).callback
             /\ OthersUntouched(Head(queue).stream)
             /\ SnapshotAndConnectionUntouched]_vars


(***************************************************************************)
(* A setup that the first poll ends.                                       *)
(***************************************************************************)
\* the listener can be found in hass.data, by the commands and by an unload
ListenerStored == stored_data = "listener_and_coordinator"

\* C39 (as claimed): when the initial poll fails and the sensor platform's
\* setup aborts, the listener started earlier in that setup does not remain
\* running, no client of it is loop-started and never stopped, and it stays
\* reachable for a later stop.
C39_NoClientOutlivesFailedSetup ==
    phase = "failed" =>
        /\ live = {}
        /\ client # None => ListenerStored


(***************************************************************************)
(* The sensor platform's async_unload_entry (sensor.py 147-168) on the     *)
(* data its setup stored: the key "mqtt_listener" is always there, with    *)
(* the listener or, when MQTT is off, with None.                           *)
(***************************************************************************)
\* how async_unload_entry ends for stored data whose listener is there or
\* None: line 164 tests the key, line 165 awaits stop() on its value, which
\* raises AttributeError on None before line 167 removes the data
unload_entry(has_listener) ==
    IF has_listener
    THEN [returned |-> "True", stops |-> 1, removed |-> TRUE]
    ELSE [returned |-> "raised", stops |-> 0, removed |-> FALSE]

UnloadPlatform ==
    /\ phase = "ready"
    /\ net_pc = "idle"
    /\ client' = IF mqtt_enabled THEN stop(listener).client ELSE client
    /\ connected' = IF mqtt_enabled THEN stop(listener).connected ELSE connected
    /\ live' = IF mqtt_enabled THEN stop(listener).live ELSE live
    /\ topic_subscriptions' = IF mqtt_enabled
                              THEN topics_after_stop(listener, topic_subscriptions)
                              ELSE topic_subscriptions
    /\ phase' = IF unload_entry(mqtt_enabled).removed THEN "unloaded" ELSE phase
    /\ observed' = record("unload", Some(mqtt_enabled), Some(listener),
                          Some(unload_entry(mqtt_enabled)))
    /\ UNCHANGED <<mqtt_enabled, todo, coordinator_vars, binary_sensors, earlier_waits,
                   entity_vars, nclients, subscribers, waiting, timeout, queue, net_vars,
                   history, refresh_requested, recording>>

InitUnload == InitProgram /\ recording = TRUE

NextUnload ==
    \/ \E outcome \in StartOutcomes : SetupStartWith(outcome)
    \/ StartWait
    \/ StartReturn
    \/ \E s \in PollResults : FirstRefresh(s)
    \/ CreateEntity
    \/ \E rc \in {0, 5} : OnConnect(rc)
    \/ \E rc \in {0, 1} : OnDisconnect(rc)
    \/ UnloadPlatform

SpecUnload == InitUnload /\ [][NextUnload]_vars

\* the step is a call of the platform's async_unload_entry
UnloadStep ==
    /\ observed'.op = "unload"
    /\ observed.op # "unload" \/ observed' # observed
    /\ observed'.started = observed.started

\* what the call does for an entry whose stored listener is there
UnloadedWithListener ==
    /\ observed'.result[1].returned = "True"
    /\ stored_data' = "absent"
    /\ observed'.result[1].stops = 1
    /\ client' = None /\ ~connected'
    /\ client # None => client[1] \notin live'

\* C40 (as claimed): the platform's async_unload_entry returns True and
\* removes the stored data of every entry that setup stored, also of an
\* entry set up with MQTT disabled, without raising; a stored listener is
\* stopped exactly once before the data is removed.
C40_PlatformUnload ==
    [][UnloadStep =>
          IF mqtt_enabled THEN UnloadedWithListener
          ELSE /\ observed'.result[1].returned = "True"
               /\ stored_data' = "absent"
               /\ observed'.result[1].stops = 0]_vars

\* C40 (the part that holds): the same for every entry set up with MQTT
\* enabled.
C40_PlatformUnloadWithListener ==
    [][(UnloadStep /\ mqtt_enabled) => UnloadedWithListener]_vars

=============================================================================
